---- MODULE Spec2Model ----
(***************************************************************************)
(* Order / payment reconciliation core of the flower shop back end:        *)
(* stock ledger, order aggregate, transaction ledger, the payment          *)
(* callbacks (redirect and webhook) and the payment timeout sweep.         *)
(*                                                                         *)
(* Every request handler is a process that takes one step per datastore    *)
(* or gateway call (each `await` of the source is a point where other      *)
(* handlers may run).  Multi-document transactions (mongoose sessions)     *)
(* read from the snapshot taken when they start, buffer their writes, and  *)
(* abort with a write conflict when they write a document that another     *)
(* open transaction has written or that was committed after the snapshot.  *)
(***************************************************************************)
EXTENDS Integers, FiniteSets, Sequences, TLC

VARIABLES
    impl,    \* which PaymentService source is deployed
    stock,   \* Flower.stock, per flower
    price,   \* Flower.price, per flower
    orders,  \* Order collection: sequence indexed by order id
    items,   \* OrderItem collection: sequence indexed by item id
    txns,    \* Transaction collection: sequence indexed by transaction id
    now,     \* wall clock (minutes)
    procs    \* in-flight handler invocations

dbVars == <<stock, price, orders, items, txns>>
vars == <<impl, stock, price, orders, items, txns, now, procs>>

----------------------------------------------------------------------------
(* Bounds of the model *)

\* stock of every flower at the start
InitStock == 2
\* handler invocations in one behaviour
MaxProcs == 2

Procs == DOMAIN procs
Flowers == {"rose", "tulip"}
\* an id that matches no Flower document
NoFlower == "ghost"
FlowerIds == Flowers \cup {NoFlower}
Quantities == {1, 2}
ShippingFees == {0, 5}

\* line-item lists a createOrder request carries (items is validated to be a
\* non-empty array of {flowerId, quantity >= 1})
Line(f, q) == [flowerId |-> f, quantity |-> q]
OrderRequests ==
    {<<Line("rose", q)>> : q \in Quantities}
        \cup {<<Line("rose", 1), Line(f, q)>> : f \in FlowerIds, q \in Quantities}

----------------------------------------------------------------------------
(* Documents *)

\* unset optional fields
NoCode == "none"
NoTxn == 0
NoDate == -1

OrderStatuses == {"pending", "paid", "confirmed", "shipped", "delivered", "cancelled"}
TransactionStatuses == {"pending", "completed", "failed", "cancelled"}

OrderIds == DOMAIN orders
ItemIds == {i \in DOMAIN items : items[i].live}
TxnIds == DOMAIN txns

Idle == [op |-> "idle", pc |-> "idle"]
Done(op, result) == [op |-> op, pc |-> "done", result |-> result]

\* a request arrives: slots are taken in order
CanStart(p) == procs[p] = Idle /\ \A q \in Procs : q < p => procs[q] # Idle

IsTxn(r) == r.op \in {"createOrder", "updateOrderItem"} /\ r.pc # "done"

\* documents an open transaction has written and not yet committed
Locked(ps, p, kind, id) ==
    \E q \in Procs : q # p /\ IsTxn(ps[q]) /\ id \in ps[q].wrote[kind]

\* a committed write to document (kind, id) invalidates the snapshot of every
\* open transaction for that document
Stale(ps, p, kind, id) ==
    [q \in Procs |->
        IF q # p /\ IsTxn(ps[q])
        THEN [ps[q] EXCEPT !.stale[kind] = @ \cup {id}]
        ELSE ps[q]]

StaleAll(ps, p, kind, ids) ==
    [q \in Procs |->
        IF q # p /\ IsTxn(ps[q])
        THEN [ps[q] EXCEPT !.stale[kind] = @ \cup ids]
        ELSE ps[q]]

NoDocs == [flower |-> {}, item |-> {}, order |-> {}]

\* a write inside a transaction conflicts when the document is stale for the
\* transaction or is held by another open transaction
Conflicts(ps, p, kind, id) ==
    id \in ps[p].stale[kind] \/ Locked(ps, p, kind, id)

----------------------------------------------------------------------------
(* OrderService.createOrder *)

\* the flower as the transaction sees it: snapshot plus its own writes
TxnStock(r, f) == r.snap[f] + r.delta[f]

StartCreateOrder(p) ==
    /\ CanStart(p)
    /\ \E its \in OrderRequests, fee \in ShippingFees :
        procs' = [procs EXCEPT ![p] =
            [op |-> "createOrder", pc |-> "loop", items |-> its,
             shippingFee |-> fee, i |-> 1, totalAmount |-> 0,
             orderItems |-> <<>>, snap |-> stock,
             delta |-> [f \in Flowers |-> 0],
             wrote |-> NoDocs, stale |-> NoDocs]]
    /\ UNCHANGED <<impl, dbVars, now>>

\* abortTransaction: the buffered writes are dropped
Abort(p, op, err) ==
    /\ procs' = [procs EXCEPT ![p] = Done(op, err)]
    /\ UNCHANGED <<impl, dbVars, now>>

\* createOrder's catch block; line is the line item being processed
AbortCreateOrder(p, err) ==
    /\ procs' = [procs EXCEPT ![p] =
         [op |-> "createOrder", pc |-> "done", result |-> err,
          line |-> procs[p].i]]
    /\ UNCHANGED <<impl, dbVars, now>>

\* the loop body with the $inc issued outside the session
CreateOrderItemLoopNoSession(p) ==
    LET r == procs[p]
        it == r.items[r.i]
        f == it.flowerId
    IN  /\ r.op = "createOrder" /\ r.pc = "loop"
        /\ r.i <= Len(r.items)
        /\ IF f \notin Flowers
           THEN AbortCreateOrder(p, "FlowerNotFound")
           ELSE IF stock[f] < it.quantity
           THEN AbortCreateOrder(p, "InsufficientStock")
           ELSE /\ procs' = [procs EXCEPT ![p] =
                    [r EXCEPT !.i = @ + 1,
                              !.totalAmount = @ + price[f] * it.quantity,
                              !.orderItems = Append(@,
                                  [flowerId |-> f, actualPrice |-> price[f],
                                   quantity |-> it.quantity])]]
                /\ stock' = [stock EXCEPT ![f] = @ - it.quantity]
                /\ UNCHANGED <<impl, price, orders, items, txns, now>>

\* the loop body with $inc: {stock: -1} in place of -item.quantity
CreateOrderItemLoopDecrementOne(p) ==
    LET r == procs[p]
        it == r.items[r.i]
        f == it.flowerId
    IN  /\ r.op = "createOrder" /\ r.pc = "loop"
        /\ r.i <= Len(r.items)
        /\ IF f \notin Flowers
           THEN AbortCreateOrder(p, "FlowerNotFound")
           ELSE IF TxnStock(r, f) < it.quantity
           THEN AbortCreateOrder(p, "InsufficientStock")
           ELSE IF Conflicts(procs, p, "flower", f)
           THEN AbortCreateOrder(p, "WriteConflict")
           ELSE /\ procs' = [procs EXCEPT ![p] =
                    [r EXCEPT !.i = @ + 1,
                              !.totalAmount = @ + price[f] * it.quantity,
                              !.orderItems = Append(@,
                                  [flowerId |-> f, actualPrice |-> price[f],
                                   quantity |-> it.quantity]),
                              !.delta[f] = @ - 1,
                              !.wrote.flower = @ \cup {f}]]
                /\ UNCHANGED <<impl, dbVars, now>>

\* one iteration of the for loop: findById, the two checks, the $inc
CreateOrderItemLoop(p) ==
    LET r == procs[p]
        it == r.items[r.i]
        f == it.flowerId
    IN  /\ r.op = "createOrder" /\ r.pc = "loop"
        /\ r.i <= Len(r.items)
        /\ IF f \notin Flowers
           THEN AbortCreateOrder(p, "FlowerNotFound")
           ELSE IF TxnStock(r, f) < it.quantity
           THEN AbortCreateOrder(p, "InsufficientStock")
           ELSE IF Conflicts(procs, p, "flower", f)
           THEN AbortCreateOrder(p, "WriteConflict")
           ELSE /\ procs' = [procs EXCEPT ![p] =
                    [r EXCEPT !.i = @ + 1,
                              !.totalAmount = @ + price[f] * it.quantity,
                              !.orderItems = Append(@,
                                  [flowerId |-> f, actualPrice |-> price[f],
                                   quantity |-> it.quantity]),
                              !.delta[f] = @ - it.quantity,
                              !.wrote.flower = @ \cup {f}]]
                /\ UNCHANGED <<impl, dbVars, now>>

\* the catalogue's prices
SeedPrice(f) == IF f = "rose" THEN 10 ELSE 20

NewOrder(total, fee, at) ==
    [totalAmount |-> total + fee, shippingFee |-> fee, status |-> "pending",
     orderAt |-> at, paidAt |-> NoDate, transactionId |-> NoTxn,
     paymentCode |-> NoCode]

NewItems(lines, oid) ==
    [k \in 1..Len(lines) |->
        [flowerId |-> lines[k].flowerId, actualPrice |-> lines[k].actualPrice,
         quantity |-> lines[k].quantity, orderId |-> oid, live |-> TRUE]]

\* order.save, OrderItem.insertMany and commitTransaction: the buffered
\* decrements, the order and its items become visible together
CommitCreateOrder(p) ==
    LET r == procs[p]
        oid == Len(orders) + 1
    IN  /\ r.op = "createOrder" /\ r.pc = "loop"
        /\ r.i > Len(r.items)
        /\ stock' = [f \in Flowers |-> stock[f] + r.delta[f]]
        /\ orders' = Append(orders, NewOrder(r.totalAmount, r.shippingFee, now))
        /\ items' = items \o NewItems(r.orderItems, oid)
        /\ procs' = [StaleAll(procs, p, "flower", r.wrote.flower) EXCEPT ![p] =
                        [op |-> "createOrder", pc |-> "done", result |-> "ok",
                         orderId |-> oid]]
        /\ UNCHANGED <<impl, price, txns, now>>

\* a persistence error in save / insertMany / commit: the catch block aborts
FailCreateOrder(p) ==
    LET r == procs[p]
    IN  /\ r.op = "createOrder" /\ r.pc = "loop"
        /\ r.i > Len(r.items)
        /\ AbortCreateOrder(p, "PersistenceError")

----------------------------------------------------------------------------
(* OrderItemService.createOrderItem: no session, four separate calls *)

\* the request arrives; const flower = await Flower.findById(flowerId)
StartCreateOrderItem(p) ==
    /\ CanStart(p)
    /\ \E f \in FlowerIds, q \in Quantities, o \in 1..(Len(orders) + 1) :
        procs' = [procs EXCEPT ![p] =
             IF f \notin Flowers
             THEN Done("createOrderItem", "FlowerNotFound")
             ELSE [op |-> "createOrderItem", pc |-> "findOrder",
                   flowerId |-> f, quantity |-> q, orderId |-> o,
                   flower |-> [stock |-> stock[f], price |-> price[f]]]]
    /\ UNCHANGED <<impl, dbVars, now>>

\* the availability check of createOrderItem, on the flower read earlier
CoiEnough(flowerStock, quantity) == ~(flowerStock < quantity)

\* const order = await Order.findById(orderId), then the stock check
CoiFindOrder(p) ==
    LET r == procs[p]
    IN  /\ r.op = "createOrderItem" /\ r.pc = "findOrder"
        /\ procs' = [procs EXCEPT ![p] =
             IF r.orderId \notin OrderIds
             THEN Done("createOrderItem", "OrderNotFound")
             ELSE IF ~CoiEnough(r.flower.stock, r.quantity)
             THEN Done("createOrderItem", "InsufficientStock")
             ELSE [r EXCEPT !.pc = "save"]]
        /\ UNCHANGED <<impl, dbVars, now>>

\* await orderItem.save()
CoiSave(p) ==
    LET r == procs[p]
    IN  /\ r.op = "createOrderItem" /\ r.pc = "save"
        /\ items' = Append(items,
             [flowerId |-> r.flowerId, actualPrice |-> r.flower.price,
              quantity |-> r.quantity, orderId |-> r.orderId, live |-> TRUE])
        /\ procs' = [procs EXCEPT ![p] =
             [op |-> "createOrderItem", pc |-> "inc", flowerId |-> r.flowerId,
              quantity |-> r.quantity, itemId |-> Len(items) + 1]]
        /\ UNCHANGED <<impl, stock, price, orders, txns, now>>

\* await Flower.findByIdAndUpdate(flowerId, {$inc: {stock: -quantity}});
\* a write outside a transaction waits for an open transaction that has
\* written the document
CoiInc(p) ==
    LET r == procs[p]
    IN  /\ r.op = "createOrderItem" /\ r.pc = "inc"
        /\ ~Locked(procs, p, "flower", r.flowerId)
        /\ stock' = [stock EXCEPT ![r.flowerId] = @ - r.quantity]
        /\ procs' = [Stale(procs, p, "flower", r.flowerId) EXCEPT ![p] =
             [op |-> "createOrderItem", pc |-> "done", result |-> "ok",
              itemId |-> r.itemId, flowerId |-> r.flowerId,
              quantity |-> r.quantity]]
        /\ UNCHANGED <<impl, price, orders, items, txns, now>>

----------------------------------------------------------------------------
(* OrderItemService.deleteOrderItem: no session *)

\* the request arrives; const orderItem = await OrderItem.findById(orderItemId)
StartDeleteOrderItem(p) ==
    /\ CanStart(p)
    /\ \E i \in 1..(Len(items) + 1) :
        procs' = [procs EXCEPT ![p] =
             IF i \notin ItemIds
             THEN Done("deleteOrderItem", "ItemNotFound")
             ELSE [op |-> "deleteOrderItem", pc |-> "findOrder",
                   itemId |-> i, orderItem |-> items[i]]]
    /\ UNCHANGED <<impl, dbVars, now>>

\* const order = await Order.findById(orderItem.orderId), the status check
DoiFindOrder(p) ==
    LET r == procs[p]
    IN  /\ r.op = "deleteOrderItem" /\ r.pc = "findOrder"
        /\ procs' = [procs EXCEPT ![p] =
             IF orders[r.orderItem.orderId].status # "pending"
             THEN Done("deleteOrderItem", "OrderNotPending")
             ELSE [r EXCEPT !.pc = "inc"]]
        /\ UNCHANGED <<impl, dbVars, now>>

\* await Flower.findByIdAndUpdate(flowerId, {$inc: {stock: orderItem.quantity}})
DoiInc(p) ==
    LET r == procs[p]
        f == r.orderItem.flowerId
    IN  /\ r.op = "deleteOrderItem" /\ r.pc = "inc"
        /\ ~Locked(procs, p, "flower", f)
        /\ stock' = [stock EXCEPT ![f] = @ + r.orderItem.quantity]
        /\ procs' = [Stale(procs, p, "flower", f) EXCEPT ![p] =
             [op |-> "deleteOrderItem", pc |-> "delete", itemId |-> r.itemId]]
        /\ UNCHANGED <<impl, price, orders, items, txns, now>>

\* await OrderItem.findByIdAndDelete(orderItemId)
DoiDelete(p) ==
    LET r == procs[p]
    IN  /\ r.op = "deleteOrderItem" /\ r.pc = "delete"
        /\ ~Locked(procs, p, "item", r.itemId)
        /\ items' = [items EXCEPT ![r.itemId].live = FALSE]
        /\ procs' = [Stale(procs, p, "item", r.itemId) EXCEPT ![p] =
             Done("deleteOrderItem", "ok")]
        /\ UNCHANGED <<impl, stock, price, orders, txns, now>>

----------------------------------------------------------------------------
(* OrderItemService.updateOrderItem: one session *)

\* quantities an update request carries; 0 stands for a request without one
UpdateQuantities == {0} \cup Quantities

UoiStarted(i, q, orderItem) ==
    [op |-> "updateOrderItem", pc |-> "incStock", itemId |-> i,
     newQuantity |-> q, orderItem |-> orderItem,
     quantityDiff |-> q - orderItem.quantity,
     wrote |-> NoDocs, stale |-> NoDocs]

\* the request arrives and the session starts; its reads all come from the
\* snapshot taken now: findById(orderItem), findById(order) and the status
\* check, the quantity check, findById(flower) and the stock check
StartUpdateOrderItem(p) ==
    /\ CanStart(p)
    /\ \E i \in 1..(Len(items) + 1), q \in UpdateQuantities :
        procs' = [procs EXCEPT ![p] =
            IF i \notin ItemIds
            THEN Done("updateOrderItem", "ItemNotFound")
            ELSE IF orders[items[i].orderId].status # "pending"
            THEN Done("updateOrderItem", "OrderNotPending")
            ELSE IF q = 0
            THEN Done("updateOrderItem", "OnlyQuantity")
            ELSE IF q - items[i].quantity > 0
                    /\ stock[items[i].flowerId] < q - items[i].quantity
            THEN Done("updateOrderItem", "InsufficientStock")
            ELSE UoiStarted(i, q, items[i])]
    /\ UNCHANGED <<impl, dbVars, now>>

\* the three writes of the session, each subject to a write conflict
UoiWrite(p, pc, kind, id, next) ==
    LET r == procs[p]
    IN  /\ r.op = "updateOrderItem" /\ r.pc = pc
        /\ IF Conflicts(procs, p, kind, id)
           THEN Abort(p, "updateOrderItem", "WriteConflict")
           ELSE /\ procs' = [procs EXCEPT ![p] =
                    [r EXCEPT !.pc = next, !.wrote[kind] = @ \cup {id}]]
                /\ UNCHANGED <<impl, dbVars, now>>

UoiIncStock(p) ==
    /\ procs[p].op = "updateOrderItem" /\ procs[p].pc = "incStock"
    /\ UoiWrite(p, "incStock", "flower", procs[p].orderItem.flowerId, "setQuantity")

UoiSetQuantity(p) ==
    /\ procs[p].op = "updateOrderItem" /\ procs[p].pc = "setQuantity"
    /\ UoiWrite(p, "setQuantity", "item", procs[p].itemId, "incTotal")

UoiIncTotal(p) ==
    /\ procs[p].op = "updateOrderItem" /\ procs[p].pc = "incTotal"
    /\ UoiWrite(p, "incTotal", "order", procs[p].orderItem.orderId, "commit")

\* commitTransaction: $inc stock by -quantityDiff, quantity := newQuantity,
\* $inc totalAmount by actualPrice * quantityDiff
UoiCommit(p) ==
    LET r == procs[p]
        it == r.orderItem
    IN  /\ r.op = "updateOrderItem" /\ r.pc = "commit"
        /\ stock' = [stock EXCEPT ![it.flowerId] = @ - r.quantityDiff]
        /\ items' = [items EXCEPT ![r.itemId].quantity = r.newQuantity]
        /\ orders' = [orders EXCEPT ![it.orderId].totalAmount =
                         @ + it.actualPrice * r.quantityDiff]
        /\ procs' = [Stale(Stale(Stale(procs, p, "flower", it.flowerId),
                                 p, "item", r.itemId),
                           p, "order", it.orderId)
                     EXCEPT ![p] = Done("updateOrderItem", "ok")]
        /\ UNCHANGED <<impl, price, txns, now>>

----------------------------------------------------------------------------
(* The second source of OrderItemService.updateOrderItem, without a session: *)
(* it passes the request body to findByIdAndUpdate                           *)

\* actualPrice values a request body carries; 0 stands for a body without one
BodyPrices == {0, 1}

\* OrderItem.findById, Order.findById and the status check
StartPutOrderItem(p) ==
    /\ CanStart(p)
    /\ \E i \in 1..(Len(items) + 1), q \in UpdateQuantities, a \in BodyPrices :
        procs' = [procs EXCEPT ![p] =
            IF i \notin ItemIds
            THEN Done("putOrderItem", "ItemNotFound")
            ELSE IF orders[items[i].orderId].status # "pending"
            THEN Done("putOrderItem", "OrderNotPending")
            ELSE [op |-> "putOrderItem", pc |-> "update", itemId |-> i,
                  updateData |-> [quantity |-> q, actualPrice |-> a]]]
    /\ UNCHANGED <<impl, dbVars, now>>

\* OrderItem.findByIdAndUpdate(orderItemId, updateData, {new: true})
PutOrderItemUpdate(p) ==
    LET r == procs[p]
        u == r.updateData
    IN  /\ r.op = "putOrderItem" /\ r.pc = "update"
        /\ items' = [items EXCEPT ![r.itemId] =
              [@ EXCEPT !.quantity = IF u.quantity = 0 THEN @ ELSE u.quantity,
                        !.actualPrice =
                            IF u.actualPrice = 0 THEN @ ELSE u.actualPrice]]
        /\ procs' = [procs EXCEPT ![p] = Done("putOrderItem", "ok")]
        /\ UNCHANGED <<impl, stock, price, orders, txns, now>>

\* prices a seller sets
Prices(f) == {SeedPrice(f), SeedPrice(f) + 5}

\* PUT /api/flowers/:id: the body's price and stock are validated and saved
UpdateFlower(p) ==
    /\ CanStart(p)
    /\ \E f \in Flowers, newStock \in 0..InitStock :
      \E newPrice \in Prices(f) :
        /\ price' = [price EXCEPT ![f] = newPrice]
        /\ stock' = [stock EXCEPT ![f] = newStock]
    /\ procs' = [procs EXCEPT ![p] = Done("updateFlower", "ok")]
    /\ UNCHANGED <<impl, orders, items, txns, now>>

----------------------------------------------------------------------------
(* PaymentService.  Three sources of the class are in the repository:      *)
(*   "v1"  src/service/paymentService.js                                   *)
(*   "v2"  src/service/categoryService.js, lines 60-436                    *)
(*   "v3"  src/service/categoryService.js, lines 438-782 (has no           *)
(*         handlePaymentWebhook)                                           *)
(* impl says which one is deployed.                                        *)

Impls == {"v1", "v2", "v3"}

\* codes generateUniquePaymentCode can return: six digits of the clock and
\* three random digits, so two calls can return the same code
Codes == {"c1", "c2"}

\* the order holding a payment code: Order.findOne({paymentCode})
OrderByCode(c) == {o \in OrderIds : orders[o].paymentCode = c}

\* Transaction.findById
TxnFound(tid) == tid \in TxnIds

\* Transaction.findByIdAndUpdate(tid, {transactionStatus}): no document is
\* written when the id names none
SetTransactionStatus(ts, tid, status) ==
    IF tid \in DOMAIN ts
    THEN [ts EXCEPT ![tid].transactionStatus = status]
    ELSE ts

\* the order's transaction is completed when a callback for it arrives (kept
\* with the invocation to tell a repeated delivery from a first one)
CompletedAlready(o) ==
    /\ TxnFound(orders[o].transactionId)
    /\ txns[orders[o].transactionId].transactionStatus = "completed"

\* the checks of createPaymentLink on the order it has read
CplCheckV1(order) ==
    IF order.status # "pending" THEN "OrderNotPending" ELSE "ok"

CplCheckV2(order) ==
    IF order.status # "pending" THEN "OrderNotPending"
    ELSE IF order.paymentCode # NoCode THEN "DuplicatePaymentLink"
    ELSE "ok"

CplCheck(order) == IF impl = "v1" THEN CplCheckV1(order) ELSE CplCheckV2(order)

CplDone(o, result) ==
    [op |-> "createPaymentLink", pc |-> "done", result |-> result, orderId |-> o]

\* the request arrives; Order.findById, the checks, generateUniquePaymentCode
\* and OrderItem.find({orderId}) (no payment handler writes order items);
\* v2 and v3 refuse an order without items
StartCreatePaymentLink(p) ==
    /\ CanStart(p)
    /\ \E o \in 1..(Len(orders) + 1), c \in Codes :
        LET orderItems == {i \in ItemIds : items[i].orderId = o}
        IN  procs' = [procs EXCEPT ![p] =
                IF o \notin OrderIds
                THEN CplDone(o, "OrderNotFound")
                ELSE IF CplCheck(orders[o]) # "ok"
                THEN CplDone(o, CplCheck(orders[o]))
                ELSE IF impl # "v1" /\ orderItems = {}
                THEN CplDone(o, "NoOrderItems")
                ELSE [op |-> "createPaymentLink", pc |-> "saveTxn",
                      orderId |-> o, orderCode |-> c]]
    /\ UNCHANGED <<impl, dbVars, now>>

\* const savedTransaction = await transaction.save()
CplSaveTxn(p) ==
    LET r == procs[p]
    IN  /\ r.op = "createPaymentLink" /\ r.pc = "saveTxn"
        /\ txns' = Append(txns, [transactionStatus |-> "pending"])
        /\ procs' = [procs EXCEPT ![p] =
             [op |-> "createPaymentLink", pc |-> "setLink", orderId |-> r.orderId,
              orderCode |-> r.orderCode, transactionId |-> Len(txns) + 1]]
        /\ UNCHANGED <<impl, stock, price, orders, items, now>>

\* Order.findByIdAndUpdate(orderId, {transactionId, paymentCode}); the unique
\* index on paymentCode rejects a code another order holds
CplSetLink(p) ==
    LET r == procs[p]
    IN  /\ r.op = "createPaymentLink" /\ r.pc = "setLink"
        /\ IF OrderByCode(r.orderCode) \ {r.orderId} # {}
           THEN /\ procs' = [procs EXCEPT ![p] =
                     CplDone(r.orderId, "DuplicateKey")]
                /\ UNCHANGED orders
           ELSE /\ orders' = [orders EXCEPT ![r.orderId] =
                     [@ EXCEPT !.transactionId = r.transactionId,
                               !.paymentCode = r.orderCode]]
                /\ procs' = [procs EXCEPT ![p] = [r EXCEPT !.pc = "gateway"]]
        /\ UNCHANGED <<impl, stock, price, items, txns, now>>

\* await this.payOS.createPaymentLink(paymentData) resolves
CplGatewayOk(p) ==
    LET r == procs[p]
    IN  /\ r.op = "createPaymentLink" /\ r.pc = "gateway"
        /\ procs' = [procs EXCEPT ![p] =
             CplDone(r.orderId, "ok")]
        /\ UNCHANGED <<impl, dbVars, now>>

\* await this.payOS.createPaymentLink(paymentData) rejects
CplGatewayFails(p) ==
    LET r == procs[p]
    IN  /\ r.op = "createPaymentLink" /\ r.pc = "gateway"
        /\ procs' = [procs EXCEPT ![p] = [r EXCEPT !.pc = "failTxn"]]
        /\ UNCHANGED <<impl, dbVars, now>>

\* catch: Transaction.findByIdAndUpdate(savedTransaction._id, {failed})
CplFailTxn(p) ==
    LET r == procs[p]
    IN  /\ r.op = "createPaymentLink" /\ r.pc = "failTxn"
        /\ txns' = [txns EXCEPT ![r.transactionId].transactionStatus = "failed"]
        /\ procs' = [procs EXCEPT ![p] =
             IF impl = "v1"
             THEN CplDone(r.orderId, "GatewayError")
             ELSE [r EXCEPT !.pc = "unsetCode"]]
        /\ UNCHANGED <<impl, stock, price, orders, items, now>>

\* catch (v2, v3): Order.findByIdAndUpdate(orderId, {$unset: {paymentCode: 1}})
CplUnsetCode(p) ==
    LET r == procs[p]
    IN  /\ r.op = "createPaymentLink" /\ r.pc = "unsetCode"
        /\ orders' = [orders EXCEPT ![r.orderId].paymentCode = NoCode]
        /\ procs' = [procs EXCEPT ![p] = CplDone(r.orderId, "GatewayError")]
        /\ UNCHANGED <<impl, stock, price, items, txns, now>>

----------------------------------------------------------------------------
(* PaymentService.handlePaymentReturn: the redirect callbacks *)

ResultCodes == {"00", "01"}
GatewayStatuses == {"PAID", "CANCELLED", "PENDING"}
CancelFlags == {"true", "false"}

\* which branch of handlePaymentReturn the query parameters select
ReturnBranchV1(code, status, cancel) ==
    IF code = "00" /\ status = "PAID" THEN "PAID"
    ELSE IF cancel = "true" THEN "CANCELLED"
    ELSE "NONE"

ReturnBranchV2(code, status, cancel) ==
    IF code = "00" /\ status = "PAID" THEN "PAID"
    ELSE IF cancel = "true" \/ status = "CANCELLED" THEN "CANCELLED"
    ELSE "FAILED"

ReturnBranch(code, status, cancel) ==
    IF impl = "v1" THEN ReturnBranchV1(code, status, cancel)
    ELSE ReturnBranchV2(code, status, cancel)

\* as CallbackResponse, without the catch block of the route
CallbackResponseNoCatch(result) ==
    IF result = "ok"
    THEN [http |-> 302, link |-> "callback"]
    ELSE [http |-> 500]

\* the response of the redirect routes: the deep link built from the result
\* of handlePaymentReturn, or in the catch block the error deep link
CallbackResponse(result) ==
    IF result = "ok"
    THEN [http |-> 302, link |-> "callback"]
    ELSE [http |-> 302, link |-> "error", success |-> FALSE]

ReturnDone(branch, result, message) ==
    [op |-> "return", pc |-> "done", branch |-> branch, result |-> result,
     message |-> message, response |-> CallbackResponse(result)]

\* as StartReturn, without the test of the order that findOne returned
StartReturnNoOrderTest(p) ==
    /\ CanStart(p)
    /\ \E code \in ResultCodes, status \in GatewayStatuses,
          cancel \in CancelFlags, c \in Codes :
        LET branch == ReturnBranch(code, status, cancel)
            found == OrderByCode(c)
            o == CHOOSE x \in found : TRUE
        IN  procs' = [procs EXCEPT ![p] =
                IF found = {} \/ branch = "NONE"
                THEN ReturnDone(branch, "ok", "Payment failed")
                ELSE [op |-> "return", pc |-> "findTxn", branch |-> branch,
                      orderId |-> o, transactionId |-> orders[o].transactionId,
                      repeat |-> CompletedAlready(o)]]
    /\ UNCHANGED <<impl, dbVars, now>>

\* the request arrives; Order.findOne({paymentCode: orderCode})
StartReturn(p) ==
    /\ CanStart(p)
    /\ \E code \in ResultCodes, status \in GatewayStatuses,
          cancel \in CancelFlags, c \in Codes :
        LET branch == ReturnBranch(code, status, cancel)
            found == OrderByCode(c)
            o == CHOOSE x \in found : TRUE
        IN  procs' = [procs EXCEPT ![p] =
                IF found = {}
                THEN ReturnDone(branch, "OrderNotFound", "")
                ELSE IF branch = "NONE"
                THEN ReturnDone(branch, "ok", "Payment failed")
                ELSE [op |-> "return", pc |-> "findTxn", branch |-> branch,
                      orderId |-> o, transactionId |-> orders[o].transactionId,
                      repeat |-> CompletedAlready(o)]]
    /\ UNCHANGED <<impl, dbVars, now>>

\* what handlePaymentReturn does with the transaction it has read: the status
\* to write, or the result to return without a write
ReturnOnTxnV1(branch, found, status) ==
    IF ~found
    THEN [write |-> "", result |-> "ok",
          message |-> IF branch = "PAID" THEN "Payment failed" ELSE "Payment cancelled"]
    ELSE IF branch = "PAID"
    THEN [write |-> "completed", result |-> "ok", message |-> "Payment successful"]
    ELSE [write |-> "cancelled", result |-> "ok", message |-> "Payment cancelled"]

\* as ReturnOnTxnV2, but the failure branch records a cancellation and has lost
\* its pending precondition
ReturnOnTxnV2FailedAsCancelled(branch, found, status) ==
    IF branch = "PAID"
    THEN IF ~found
         THEN [write |-> "", result |-> "TransactionNotFound", message |-> ""]
         ELSE IF status = "completed"
         THEN [write |-> "", result |-> "ok", message |-> "Payment already completed"]
         ELSE [write |-> "completed", result |-> "ok",
               message |-> "Payment completed successfully"]
    ELSE IF branch = "CANCELLED"
    THEN [write |-> IF found /\ status # "cancelled" THEN "cancelled" ELSE "",
          result |-> "ok", message |-> "Payment was cancelled by user"]
    ELSE [write |-> IF found THEN "cancelled" ELSE "",
          result |-> "ok", message |-> "Payment failed with code"]

ReturnOnTxnV2(branch, found, status) ==
    IF branch = "PAID"
    THEN IF ~found
         THEN [write |-> "", result |-> "TransactionNotFound", message |-> ""]
         ELSE IF status = "completed"
         THEN [write |-> "", result |-> "ok", message |-> "Payment already completed"]
         ELSE [write |-> "completed", result |-> "ok",
               message |-> "Payment completed successfully"]
    ELSE IF branch = "CANCELLED"
    THEN [write |-> IF found /\ status # "cancelled" THEN "cancelled" ELSE "",
          result |-> "ok", message |-> "Payment was cancelled by user"]
    ELSE [write |-> IF found /\ status = "pending" THEN "failed" ELSE "",
          result |-> "ok", message |-> "Payment failed with code"]

ReturnOnTxn(branch, found, status) ==
    IF impl = "v1" THEN ReturnOnTxnV1(branch, found, status)
    ELSE ReturnOnTxnV2(branch, found, status)

\* const transaction = await Transaction.findById(order.transactionId)
ReturnFindTxn(p) ==
    LET r == procs[p]
        found == TxnFound(r.transactionId)
        status == IF found THEN txns[r.transactionId].transactionStatus ELSE ""
        todo == ReturnOnTxn(r.branch, found, status)
    IN  /\ r.op = "return" /\ r.pc = "findTxn"
        /\ procs' = [procs EXCEPT ![p] =
             IF todo.write = ""
             THEN ReturnDone(r.branch, todo.result, todo.message)
             ELSE [op |-> "return", pc |-> "setStatus", branch |-> r.branch,
                   orderId |-> r.orderId, transactionId |-> r.transactionId,
                   repeat |-> r.repeat,
                   write |-> todo.write, message |-> todo.message]]
        /\ UNCHANGED <<impl, dbVars, now>>

\* await Transaction.findByIdAndUpdate(transaction._id, {transactionStatus})
ReturnSetStatus(p) ==
    LET r == procs[p]
    IN  /\ r.op = "return" /\ r.pc = "setStatus"
        /\ txns' = [txns EXCEPT ![r.transactionId].transactionStatus = r.write]
        /\ procs' = [procs EXCEPT ![p] =
             IF r.branch = "PAID"
             THEN [r EXCEPT !.pc = "updatePayment"]
             ELSE ReturnDone(r.branch, "ok", r.message)]
        /\ UNCHANGED <<impl, stock, price, orders, items, now>>

\* as UpdatePaymentStatus, without paidAt: new Date()
UpdatePaymentStatusNoPaidAt(os, orderId, transactionId, at) ==
    [os EXCEPT ![orderId] =
        [@ EXCEPT !.status = "paid", !.transactionId = transactionId]]

\* OrderService.updatePaymentStatus: Order.findById (orders are never
\* deleted, so it finds the order) and Order.findByIdAndUpdate
UpdatePaymentStatus(os, orderId, transactionId, at) ==
    [os EXCEPT ![orderId] =
        [@ EXCEPT !.paidAt = at, !.status = "paid",
                  !.transactionId = transactionId]]

\* await orderService.updatePaymentStatus(order._id, transaction._id)
ReturnUpdatePayment(p) ==
    LET r == procs[p]
    IN  /\ r.op = "return" /\ r.pc = "updatePayment"
        /\ orders' = UpdatePaymentStatus(orders, r.orderId, r.transactionId, now)
        /\ procs' = [procs EXCEPT ![p] = ReturnDone(r.branch, "ok", r.message)]
        /\ UNCHANGED <<impl, stock, price, items, txns, now>>

\* await orderService.updatePaymentStatus(...) rejects: the catch block logs
\* and rethrows, the transaction stays completed
ReturnUpdatePaymentFails(p) ==
    LET r == procs[p]
    IN  /\ r.op = "return" /\ r.pc = "updatePayment"
        /\ procs' = [procs EXCEPT ![p] =
              ReturnDone(r.branch, "DatastoreError", "")]
        /\ UNCHANGED <<impl, dbVars, now>>

----------------------------------------------------------------------------
(* PaymentService.handlePaymentWebhook (v1 and v2; the routes that go with *)
(* v3 have no webhook endpoint)                                            *)

\* event is the status the gateway sent, status the one the handler returns
\* the response of POST /payments/webhook: res.json of the result, or in the
\* catch block res.status(400).json
WebhookResponse(result) ==
    IF result = "ok"
    THEN [http |-> 200, success |-> TRUE]
    ELSE [http |-> 400, success |-> FALSE]

WebhookDone(event, result, status) ==
    [op |-> "webhook", pc |-> "done", event |-> event, result |-> result,
     status |-> status, response |-> WebhookResponse(result)]

\* the status the webhook writes to the transaction
WebhookStatus(status) ==
    IF status = "PAID" THEN "completed"
    ELSE IF status = "CANCELLED" THEN "cancelled"
    ELSE "failed"

\* as StartWebhook, without the signature check
StartWebhookUnverified(p) ==
    /\ CanStart(p)
    /\ impl # "v3"
    /\ \E valid \in BOOLEAN, status \in GatewayStatuses, c \in Codes :
        LET found == OrderByCode(c)
            o == CHOOSE x \in found : TRUE
        IN  procs' = [procs EXCEPT ![p] =
                IF found = {} THEN WebhookDone(status, "OrderNotFound", "")
                ELSE [op |-> "webhook", pc |-> "findTxn", status |-> status,
                      orderId |-> o, transactionId |-> orders[o].transactionId,
                      repeat |-> CompletedAlready(o), verified |-> valid]]
    /\ UNCHANGED <<impl, dbVars, now>>

\* the request arrives; verifyPaymentWebhookData, Order.findOne({paymentCode});
\* verified records what verifyPaymentWebhookData returned for the request
StartWebhook(p) ==
    /\ CanStart(p)
    /\ impl # "v3"
    /\ \E valid \in BOOLEAN, status \in GatewayStatuses, c \in Codes :
        LET found == OrderByCode(c)
            o == CHOOSE x \in found : TRUE
        IN  procs' = [procs EXCEPT ![p] =
                IF ~valid THEN WebhookDone(status, "InvalidSignature", "")
                ELSE IF found = {} THEN WebhookDone(status, "OrderNotFound", "")
                ELSE [op |-> "webhook", pc |-> "findTxn", status |-> status,
                      orderId |-> o, transactionId |-> orders[o].transactionId,
                      repeat |-> CompletedAlready(o), verified |-> valid]]
    /\ UNCHANGED <<impl, dbVars, now>>

\* const transaction = await Transaction.findById(order.transactionId); with
\* no transaction the return statement reads transaction.transactionStatus of
\* null and throws
WebhookFindTxn(p) ==
    LET r == procs[p]
    IN  /\ r.op = "webhook" /\ r.pc = "findTxn"
        /\ procs' = [procs EXCEPT ![p] =
             IF ~TxnFound(r.transactionId)
             THEN WebhookDone(r.status, "TypeError", "")
             ELSE [op |-> "webhook",
                   pc |-> IF r.status = "PAID" THEN "updatePayment" ELSE "setStatus",
                   status |-> r.status, orderId |-> r.orderId,
                   transactionId |-> r.transactionId, repeat |-> r.repeat,
                   verified |-> r.verified,
                   read |-> txns[r.transactionId].transactionStatus]]
        /\ UNCHANGED <<impl, dbVars, now>>

\* case 'PAID': await orderService.updatePaymentStatus(order._id, transaction._id)
WebhookUpdatePayment(p) ==
    LET r == procs[p]
    IN  /\ r.op = "webhook" /\ r.pc = "updatePayment"
        /\ orders' = UpdatePaymentStatus(orders, r.orderId, r.transactionId, now)
        /\ procs' = [procs EXCEPT ![p] = [r EXCEPT !.pc = "setStatus"]]
        /\ UNCHANGED <<impl, stock, price, items, txns, now>>

\* await Transaction.findByIdAndUpdate(transaction._id, {transactionStatus});
\* the result carries the status of the transaction document read earlier
WebhookSetStatus(p) ==
    LET r == procs[p]
    IN  /\ r.op = "webhook" /\ r.pc = "setStatus"
        /\ txns' = [txns EXCEPT ![r.transactionId].transactionStatus =
                       WebhookStatus(r.status)]
        /\ procs' = [procs EXCEPT ![p] = WebhookDone(r.status, "ok", r.read)]
        /\ UNCHANGED <<impl, stock, price, orders, items, now>>

\* await Transaction.findByIdAndUpdate(...) rejects: the catch block logs and
\* rethrows, the order keeps what updatePaymentStatus wrote
WebhookSetStatusFails(p) ==
    LET r == procs[p]
    IN  /\ r.op = "webhook" /\ r.pc = "setStatus"
        /\ procs' = [procs EXCEPT ![p] =
              WebhookDone(r.status, "DatastoreError", "")]
        /\ UNCHANGED <<impl, dbVars, now>>

\* the outcome handlePaymentWebhook's switch selects: it reads status only
WebhookBranch(code, status, cancel) ==
    IF status = "PAID" THEN "PAID"
    ELSE IF status = "CANCELLED" THEN "CANCELLED"
    ELSE "FAILED"

\* one event is classified by both handlers, where both exist
Classify(p) ==
    /\ CanStart(p)
    /\ impl # "v3"
    /\ \E code \in ResultCodes, status \in GatewayStatuses,
          cancel \in CancelFlags :
        procs' = [procs EXCEPT ![p] =
            [op |-> "classify", pc |-> "done", code |-> code,
             status |-> status, cancel |-> cancel,
             redirect |-> ReturnBranch(code, status, cancel),
             webhook |-> WebhookBranch(code, status, cancel)]]
    /\ UNCHANGED <<impl, dbVars, now>>

----------------------------------------------------------------------------
(* PaymentService.cancelPaymentLink *)

\* the request arrives; await this.payOS.cancelPaymentLink(paymentCode, reason)
StartCancelPaymentLink(p) ==
    /\ CanStart(p)
    /\ \E c \in Codes, accepted \in BOOLEAN :
        procs' = [procs EXCEPT ![p] =
            IF ~accepted
            THEN Done("cancelPaymentLink", "GatewayError")
            ELSE [op |-> "cancelPaymentLink", pc |-> "findOrder", paymentCode |-> c]]
    /\ UNCHANGED <<impl, dbVars, now>>

\* const order = await Order.findOne({paymentCode})
CancelFindOrder(p) ==
    LET r == procs[p]
        found == OrderByCode(r.paymentCode)
        o == CHOOSE x \in found : TRUE
    IN  /\ r.op = "cancelPaymentLink" /\ r.pc = "findOrder"
        /\ procs' = [procs EXCEPT ![p] =
             IF found = {}
             THEN Done("cancelPaymentLink", "ok")
             ELSE IF orders[o].transactionId # NoTxn
             THEN [op |-> "cancelPaymentLink", pc |-> "cancelTxn", orderId |-> o,
                   transactionId |-> orders[o].transactionId]
             ELSE IF impl = "v3"
             THEN [op |-> "cancelPaymentLink", pc |-> "cancelOrder", orderId |-> o]
             ELSE Done("cancelPaymentLink", "ok")]
        /\ UNCHANGED <<impl, dbVars, now>>

\* await Transaction.findByIdAndUpdate(order.transactionId, {cancelled})
CancelTxn(p) ==
    LET r == procs[p]
    IN  /\ r.op = "cancelPaymentLink" /\ r.pc = "cancelTxn"
        /\ txns' = SetTransactionStatus(txns, r.transactionId, "cancelled")
        /\ procs' = [procs EXCEPT ![p] =
             IF impl = "v3"
             THEN [op |-> "cancelPaymentLink", pc |-> "cancelOrder",
                   orderId |-> r.orderId]
             ELSE Done("cancelPaymentLink", "ok")]
        /\ UNCHANGED <<impl, stock, price, orders, items, now>>

\* v3: await Order.findByIdAndUpdate(order._id, {status: 'cancelled'})
CancelOrder(p) ==
    LET r == procs[p]
    IN  /\ r.op = "cancelPaymentLink" /\ r.pc = "cancelOrder"
        /\ orders' = [orders EXCEPT ![r.orderId].status = "cancelled"]
        /\ procs' = [procs EXCEPT ![p] = Done("cancelPaymentLink", "ok")]
        /\ UNCHANGED <<impl, stock, price, items, txns, now>>

----------------------------------------------------------------------------
(* GET /payment/cancel in the routes that call cancelPaymentLink before     *)
(* handlePaymentReturn; an error of cancelPaymentLink is logged and the     *)
(* handler goes on                                                          *)

\* the request arrives; await this.payOS.cancelPaymentLink(orderCode, reason)
StartCancelRoute(p) ==
    /\ CanStart(p)
    /\ \E code \in ResultCodes, status \in GatewayStatuses,
          cancel \in CancelFlags, c \in Codes, accepted \in BOOLEAN :
        procs' = [procs EXCEPT ![p] =
            [op |-> "cancelRoute", pc |-> IF accepted THEN "findOrder" ELSE "return",
             branch |-> ReturnBranch(code, status, cancel), orderCode |-> c,
             orderId |-> 0, transactionId |-> NoTxn, write |-> ""]]
    /\ UNCHANGED <<impl, dbVars, now>>

\* cancelPaymentLink: const order = await Order.findOne({paymentCode})
CancelRouteFindOrder(p) ==
    LET r == procs[p]
        found == OrderByCode(r.orderCode)
        o == CHOOSE x \in found : TRUE
    IN  /\ r.op = "cancelRoute" /\ r.pc = "findOrder"
        /\ procs' = [procs EXCEPT ![p] =
             IF found = {} THEN [r EXCEPT !.pc = "return"]
             ELSE [r EXCEPT !.orderId = o,
                            !.transactionId = orders[o].transactionId,
                            !.pc = IF orders[o].transactionId # NoTxn
                                   THEN "cancelTxn"
                                   ELSE IF impl = "v3" THEN "cancelOrder"
                                   ELSE "return"]]
        /\ UNCHANGED <<impl, dbVars, now>>

\* cancelPaymentLink: Transaction.findByIdAndUpdate(..., {cancelled})
CancelRouteCancelTxn(p) ==
    LET r == procs[p]
    IN  /\ r.op = "cancelRoute" /\ r.pc = "cancelTxn"
        /\ txns' = SetTransactionStatus(txns, r.transactionId, "cancelled")
        /\ procs' = [procs EXCEPT ![p] =
             [r EXCEPT !.pc = IF impl = "v3" THEN "cancelOrder" ELSE "return"]]
        /\ UNCHANGED <<impl, stock, price, orders, items, now>>

\* cancelPaymentLink, v3: Order.findByIdAndUpdate(order._id, {cancelled})
CancelRouteCancelOrder(p) ==
    LET r == procs[p]
    IN  /\ r.op = "cancelRoute" /\ r.pc = "cancelOrder"
        /\ orders' = [orders EXCEPT ![r.orderId].status = "cancelled"]
        /\ procs' = [procs EXCEPT ![p] = [r EXCEPT !.pc = "return"]]
        /\ UNCHANGED <<impl, stock, price, items, txns, now>>

\* handlePaymentReturn(req.query): Order.findOne({paymentCode: orderCode})
CancelRouteReturn(p) ==
    LET r == procs[p]
        found == OrderByCode(r.orderCode)
        o == CHOOSE x \in found : TRUE
    IN  /\ r.op = "cancelRoute" /\ r.pc = "return"
        /\ procs' = [procs EXCEPT ![p] =
             IF found = {} THEN Done("cancelRoute", "OrderNotFound")
             ELSE IF r.branch = "NONE" THEN Done("cancelRoute", "ok")
             ELSE [r EXCEPT !.pc = "findTxn", !.orderId = o,
                            !.transactionId = orders[o].transactionId]]
        /\ UNCHANGED <<impl, dbVars, now>>

\* handlePaymentReturn: Transaction.findById(order.transactionId)
CancelRouteFindTxn(p) ==
    LET r == procs[p]
        found == TxnFound(r.transactionId)
        status == IF found THEN txns[r.transactionId].transactionStatus ELSE ""
        todo == ReturnOnTxn(r.branch, found, status)
    IN  /\ r.op = "cancelRoute" /\ r.pc = "findTxn"
        /\ procs' = [procs EXCEPT ![p] =
             IF todo.write = "" THEN Done("cancelRoute", todo.result)
             ELSE [r EXCEPT !.pc = "setStatus", !.write = todo.write]]
        /\ UNCHANGED <<impl, dbVars, now>>

\* handlePaymentReturn: Transaction.findByIdAndUpdate(..., {transactionStatus})
CancelRouteSetStatus(p) ==
    LET r == procs[p]
    IN  /\ r.op = "cancelRoute" /\ r.pc = "setStatus"
        /\ txns' = [txns EXCEPT ![r.transactionId].transactionStatus = r.write]
        /\ procs' = [procs EXCEPT ![p] =
             IF r.branch = "PAID" THEN [r EXCEPT !.pc = "updatePayment"]
             ELSE Done("cancelRoute", "ok")]
        /\ UNCHANGED <<impl, stock, price, orders, items, now>>

\* handlePaymentReturn: orderService.updatePaymentStatus(order._id, ...)
CancelRouteUpdatePayment(p) ==
    LET r == procs[p]
    IN  /\ r.op = "cancelRoute" /\ r.pc = "updatePayment"
        /\ orders' = UpdatePaymentStatus(orders, r.orderId, r.transactionId, now)
        /\ procs' = [procs EXCEPT ![p] = Done("cancelRoute", "ok")]
        /\ UNCHANGED <<impl, stock, price, items, txns, now>>

----------------------------------------------------------------------------
(* PaymentTimeoutService: the sweep started by cron every minute *)

PAYMENT_TIMEOUT_MINUTES == 10

\* as Expired, with the timeout counted in hours
ExpiredAfterHours(o) ==
    /\ orders[o].status = "pending"
    /\ orders[o].paymentCode # NoCode
    /\ orders[o].orderAt < now - PAYMENT_TIMEOUT_MINUTES * 60

\* the query of checkAndCancelExpiredPayments
Expired(o) ==
    /\ orders[o].status = "pending"
    /\ orders[o].paymentCode # NoCode
    /\ orders[o].orderAt < now - PAYMENT_TIMEOUT_MINUTES

\* the documents the query returned, in id order
RECURSIVE Snapshots(_)
Snapshots(S) ==
    IF S = {} THEN <<>>
    ELSE LET o == CHOOSE x \in S : \A y \in S : x <= y
         IN  <<[id |-> o, transactionId |-> orders[o].transactionId]>>
                 \o Snapshots(S \ {o})

\* a tick fires; const expiredOrders = await Order.find({...}).read('primary')
StartReaper(p) ==
    /\ CanStart(p)
    /\ LET expired == {o \in OrderIds : Expired(o)}
       IN  procs' = [procs EXCEPT ![p] =
               IF expired = {}
               THEN Done("reaper", "ok")
               ELSE [op |-> "reaper", pc |-> "cancelOrder",
                     expiredOrders |-> Snapshots(expired)]]
    /\ UNCHANGED <<impl, dbVars, now>>

\* as ReaperCancelOrder, returning the order's items to stock
ReaperCancelOrderRestock(p) ==
    LET r == procs[p]
        order == Head(r.expiredOrders)
        its == {i \in ItemIds : items[i].orderId = order.id}
    IN  /\ r.op = "reaper" /\ r.pc = "cancelOrder"
        /\ orders' = [orders EXCEPT ![order.id].status = "cancelled"]
        /\ stock' = [f \in Flowers |->
                        stock[f] + Cardinality({i \in its : items[i].flowerId = f})]
        /\ procs' = [procs EXCEPT ![p] =
             IF order.transactionId # NoTxn
             THEN [r EXCEPT !.pc = "cancelTxn"]
             ELSE IF Len(r.expiredOrders) = 1
             THEN Done("reaper", "ok")
             ELSE [r EXCEPT !.expiredOrders = Tail(@)]]
        /\ UNCHANGED <<impl, price, items, txns, now>>

\* cancelExpiredOrder: await Order.findByIdAndUpdate(order._id, {cancelled})
ReaperCancelOrder(p) ==
    LET r == procs[p]
        order == Head(r.expiredOrders)
    IN  /\ r.op = "reaper" /\ r.pc = "cancelOrder"
        /\ orders' = [orders EXCEPT ![order.id].status = "cancelled"]
        /\ procs' = [procs EXCEPT ![p] =
             IF order.transactionId # NoTxn
             THEN [r EXCEPT !.pc = "cancelTxn"]
             ELSE IF Len(r.expiredOrders) = 1
             THEN Done("reaper", "ok")
             ELSE [r EXCEPT !.expiredOrders = Tail(@)]]
        /\ UNCHANGED <<impl, stock, price, items, txns, now>>

\* as ReaperCancelTxn, marking the transaction failed
ReaperFailTxn(p) ==
    LET r == procs[p]
        order == Head(r.expiredOrders)
    IN  /\ r.op = "reaper" /\ r.pc = "cancelTxn"
        /\ txns' = SetTransactionStatus(txns, order.transactionId, "failed")
        /\ procs' = [procs EXCEPT ![p] =
             IF Len(r.expiredOrders) = 1
             THEN Done("reaper", "ok")
             ELSE [r EXCEPT !.pc = "cancelOrder", !.expiredOrders = Tail(@)]]
        /\ UNCHANGED <<impl, stock, price, orders, items, now>>

\* cancelExpiredOrder: await Transaction.findByIdAndUpdate(order.transactionId,
\* {cancelled})
ReaperCancelTxn(p) ==
    LET r == procs[p]
        order == Head(r.expiredOrders)
    IN  /\ r.op = "reaper" /\ r.pc = "cancelTxn"
        /\ txns' = SetTransactionStatus(txns, order.transactionId, "cancelled")
        /\ procs' = [procs EXCEPT ![p] =
             IF Len(r.expiredOrders) = 1
             THEN Done("reaper", "ok")
             ELSE [r EXCEPT !.pc = "cancelOrder", !.expiredOrders = Tail(@)]]
        /\ UNCHANGED <<impl, stock, price, orders, items, now>>

\* as ReaperWriteFails, but the error ends the sweep
ReaperWriteFailsStops(p) ==
    LET r == procs[p]
    IN  /\ r.op = "reaper" /\ r.pc \in {"cancelOrder", "cancelTxn"}
        /\ procs' = [procs EXCEPT ![p] = Done("reaper", "ok")]
        /\ UNCHANGED <<impl, dbVars, now>>

\* cancelExpiredOrder: one of its two writes rejects; the catch block logs
\* the error and the loop goes on with the next order
ReaperWriteFails(p) ==
    LET r == procs[p]
    IN  /\ r.op = "reaper" /\ r.pc \in {"cancelOrder", "cancelTxn"}
        /\ procs' = [procs EXCEPT ![p] =
             IF Len(r.expiredOrders) = 1
             THEN Done("reaper", "ok")
             ELSE [r EXCEPT !.pc = "cancelOrder", !.expiredOrders = Tail(@)]]
        /\ UNCHANGED <<impl, dbVars, now>>

\* cron.schedule('* * * * *', ...): a minute after a tick the next one is due;
\* slot 1 is the scheduler's
CronFires ==
    /\ procs[1] = Done("reaper", "ok")
    /\ procs' = [procs EXCEPT ![1] = Idle]
    /\ UNCHANGED <<impl, dbVars, now>>

----------------------------------------------------------------------------
(* TransactionService.updateTransactionStatus (PATCH /transactions/:id/status) *)

StatusInputs == TransactionStatuses \cup {"refunded"}

\* the status check, Transaction.findById (transactions are never deleted)
\* and Transaction.findByIdAndUpdate
UpdateTransactionStatus(p) ==
    /\ CanStart(p)
    /\ \E tid \in 1..(Len(txns) + 1), status \in StatusInputs :
        IF status \notin TransactionStatuses
        THEN /\ procs' = [procs EXCEPT ![p] =
                  Done("updateTransactionStatus", "InvalidStatus")]
             /\ UNCHANGED txns
        ELSE IF ~TxnFound(tid)
        THEN /\ procs' = [procs EXCEPT ![p] =
                  Done("updateTransactionStatus", "TransactionNotFound")]
             /\ UNCHANGED txns
        ELSE /\ txns' = [txns EXCEPT ![tid].transactionStatus = status]
             /\ procs' = [procs EXCEPT ![p] = Done("updateTransactionStatus", "ok")]
    /\ UNCHANGED <<impl, stock, price, orders, items, now>>

----------------------------------------------------------------------------
(* PATCH /orders/:id/status and PATCH /orders/:id/paid *)

\* the statuses the validator of PATCH /:id/status lets through
RouteStatuses == {"pending", "confirmed", "shipped", "delivered", "cancelled"}

\* the roles of the Account schema
Roles == {"admin", "user", "shipper"}

\* as UpdateOrderStatusOutcome, with the permission check after the write
UpdateOrderStatusWriteFirst(os, oid, statusName, isOwner, role) ==
    IF statusName \notin OrderStatuses
    THEN [result |-> "InvalidStatus", orders |-> os]
    ELSE IF oid \notin DOMAIN os
    THEN [result |-> "OrderNotFound", orders |-> os]
    ELSE IF ~isOwner /\ role # "admin" /\ role # "seller"
    THEN [result |-> "PermissionDenied",
          orders |-> [os EXCEPT ![oid].status = statusName]]
    ELSE [result |-> "ok", orders |-> [os EXCEPT ![oid].status = statusName]]

\* OrderService.updateOrderStatus(orderId, statusName, userId): the status
\* check, Order.findById, the permission check on the acting account and
\* Order.findByIdAndUpdate (orders are never deleted and the checks read
\* nothing a handler writes, so the call is one step)
UpdateOrderStatusOutcome(os, oid, statusName, isOwner, role) ==
    IF statusName \notin OrderStatuses
    THEN [result |-> "InvalidStatus", orders |-> os]
    ELSE IF oid \notin DOMAIN os
    THEN [result |-> "OrderNotFound", orders |-> os]
    ELSE IF ~isOwner /\ role # "admin" /\ role # "seller"
    THEN [result |-> "PermissionDenied", orders |-> os]
    ELSE [result |-> "ok", orders |-> [os EXCEPT ![oid].status = statusName]]

\* PATCH /:id/status: the route's validator, then updateOrderStatus
UpdateOrderStatus(p) ==
    /\ CanStart(p)
    /\ \E oid \in 1..(Len(orders) + 1), statusName \in OrderStatuses,
          isOwner \in BOOLEAN, role \in Roles :
        IF statusName \notin RouteStatuses
        THEN /\ procs' = [procs EXCEPT ![p] =
                  Done("updateOrderStatus", "ValidationError")]
             /\ UNCHANGED orders
        ELSE LET out == UpdateOrderStatusOutcome(orders, oid, statusName,
                                                 isOwner, role)
             IN  /\ orders' = out.orders
                 /\ procs' = [procs EXCEPT ![p] =
                       Done("updateOrderStatus", out.result)]
    /\ UNCHANGED <<impl, stock, price, items, txns, now>>

\* the statuses a caller of the service may pass
StatusNames == OrderStatuses \cup {"refunded"}

\* a direct call of OrderService.updateOrderStatus; the result keeps the
\* arguments of the call
CallUpdateOrderStatus(p) ==
    /\ CanStart(p)
    /\ \E oid \in 1..(Len(orders) + 1), statusName \in StatusNames,
          isOwner \in BOOLEAN, role \in Roles :
        LET out == UpdateOrderStatusOutcome(orders, oid, statusName,
                                            isOwner, role)
        IN  /\ orders' = out.orders
            /\ procs' = [procs EXCEPT ![p] =
                  [op |-> "updateOrderStatus", pc |-> "done",
                   result |-> out.result, orderId |-> oid,
                   statusName |-> statusName, isOwner |-> isOwner,
                   role |-> role]]
    /\ UNCHANGED <<impl, stock, price, items, txns, now>>

\* PATCH /:id/paid: orderService.updatePaymentStatus(req.params.id,
\* transactionId) with the transaction id of the request body
MarkPaid(p) ==
    /\ CanStart(p)
    /\ \E oid \in 1..(Len(orders) + 1), tid \in 1..(Len(txns) + 1) :
        IF oid \notin OrderIds
        THEN /\ procs' = [procs EXCEPT ![p] = Done("markPaid", "OrderNotFound")]
             /\ UNCHANGED orders
        ELSE /\ orders' = UpdatePaymentStatus(orders, oid, tid, now)
             /\ procs' = [procs EXCEPT ![p] = Done("markPaid", "ok")]
    /\ UNCHANGED <<impl, stock, price, items, txns, now>>

----------------------------------------------------------------------------
(* The clock *)

\* the instants the model distinguishes, in minutes after the first order
Instants == {0, 11}

Tick ==
    /\ \E t \in Instants : t > now /\ now' = t
    /\ UNCHANGED <<impl, dbVars, procs>>

----------------------------------------------------------------------------
\* the datastore before any order, and after one createOrder has committed
EmptyDb ==
    [stock |-> [f \in Flowers |-> InitStock], orders |-> <<>>, items |-> <<>>]

AfterCreateOrder(db, lines, fee) ==
    [stock |-> [f \in Flowers |->
                  db.stock[f] - (IF lines[1].flowerId = f THEN lines[1].quantity ELSE 0)],
     orders |-> Append(db.orders,
                  NewOrder(SeedPrice(lines[1].flowerId) * lines[1].quantity, fee, 0)),
     items |-> db.items \o NewItems(
                  <<[flowerId |-> lines[1].flowerId,
                     actualPrice |-> SeedPrice(lines[1].flowerId),
                     quantity |-> lines[1].quantity]>>, Len(db.orders) + 1)]

Seeds == {EmptyDb, AfterCreateOrder(EmptyDb, <<Line("rose", 1)>>, 5)}

Init ==
    /\ impl = "v2"
    /\ price = [f \in Flowers |-> SeedPrice(f)]
    /\ \E db \in Seeds :
        /\ stock = db.stock
        /\ orders = db.orders
        /\ items = db.items
    /\ txns = <<>>
    /\ now = 0
    /\ procs = [p \in 1..MaxProcs |-> Idle]

Next ==
    \/ \E p \in Procs : StartCreateOrder(p)
    \/ \E p \in Procs : CreateOrderItemLoop(p)
    \/ \E p \in Procs : CommitCreateOrder(p)
    \/ \E p \in Procs : FailCreateOrder(p)
    \/ \E p \in Procs : StartCreateOrderItem(p)
    \/ \E p \in Procs : CoiFindOrder(p)
    \/ \E p \in Procs : CoiSave(p)
    \/ \E p \in Procs : CoiInc(p)
    \/ \E p \in Procs : StartDeleteOrderItem(p)
    \/ \E p \in Procs : DoiFindOrder(p)
    \/ \E p \in Procs : DoiInc(p)
    \/ \E p \in Procs : DoiDelete(p)
    \/ \E p \in Procs : StartUpdateOrderItem(p)
    \/ \E p \in Procs : UoiIncStock(p)
    \/ \E p \in Procs : UoiSetQuantity(p)
    \/ \E p \in Procs : UoiIncTotal(p)
    \/ \E p \in Procs : UoiCommit(p)

Spec == Init /\ [][Next]_vars

\* the datastore after createPaymentLink has succeeded for order o with code c
AfterCreatePaymentLink(db, o, c) ==
    [stock |-> db.stock,
     orders |-> [db.orders EXCEPT ![o] =
                   [@ EXCEPT !.transactionId = Len(db.txns) + 1,
                             !.paymentCode = c]],
     items |-> db.items,
     txns |-> Append(db.txns, [transactionStatus |-> "pending"])]

OneOrder ==
    [txns |-> <<>>] @@ AfterCreateOrder(EmptyDb, <<Line("rose", 1)>>, 5)

\* the payment flows start from a datastore holding one committed order,
\* without a payment link or with the link a createPaymentLink call made
PaySeeds == {OneOrder, AfterCreatePaymentLink(OneOrder, 1, "c1")}

PayInit ==
    /\ impl \in Impls
    /\ price = [f \in Flowers |-> SeedPrice(f)]
    /\ \E db \in PaySeeds :
        /\ stock = db.stock
        /\ orders = db.orders
        /\ items = db.items
        /\ txns = db.txns
    /\ now = 0
    /\ procs = [p \in 1..MaxProcs |-> Idle]

PayNext ==
    \/ \E p \in Procs : StartCreatePaymentLink(p)
    \/ \E p \in Procs : CplSaveTxn(p)
    \/ \E p \in Procs : CplSetLink(p)
    \/ \E p \in Procs : CplGatewayOk(p)
    \/ \E p \in Procs : CplGatewayFails(p)
    \/ \E p \in Procs : CplFailTxn(p)
    \/ \E p \in Procs : CplUnsetCode(p)
    \/ \E p \in Procs : StartReturn(p)
    \/ \E p \in Procs : ReturnFindTxn(p)
    \/ \E p \in Procs : ReturnSetStatus(p)
    \/ \E p \in Procs : ReturnUpdatePayment(p)
    \/ \E p \in Procs : StartWebhook(p)
    \/ \E p \in Procs : WebhookFindTxn(p)
    \/ \E p \in Procs : WebhookUpdatePayment(p)
    \/ \E p \in Procs : WebhookSetStatus(p)
    \/ \E p \in Procs : StartCancelPaymentLink(p)
    \/ \E p \in Procs : CancelFindOrder(p)
    \/ \E p \in Procs : CancelTxn(p)
    \/ \E p \in Procs : CancelOrder(p)
    \/ \E p \in Procs : StartReaper(p)
    \/ \E p \in Procs : ReaperCancelOrder(p)
    \/ \E p \in Procs : ReaperCancelTxn(p)
    \/ \E p \in Procs : UpdateTransactionStatus(p)
    \/ \E p \in Procs : UpdateOrderStatus(p)
    \/ \E p \in Procs : MarkPaid(p)
    \/ Tick

PaySpec == PayInit /\ [][PayNext]_vars

\* the operations on the items of an existing order, with both sources of
\* updateOrderItem, and the seller's update of a flower
ItemInit ==
    /\ Init
    /\ orders # <<>>

ItemNext ==
    \/ \E p \in Procs : StartCreateOrderItem(p)
    \/ \E p \in Procs : CoiFindOrder(p)
    \/ \E p \in Procs : CoiSave(p)
    \/ \E p \in Procs : CoiInc(p)
    \/ \E p \in Procs : StartUpdateOrderItem(p)
    \/ \E p \in Procs : UoiIncStock(p)
    \/ \E p \in Procs : UoiSetQuantity(p)
    \/ \E p \in Procs : UoiIncTotal(p)
    \/ \E p \in Procs : UoiCommit(p)
    \/ \E p \in Procs : StartPutOrderItem(p)
    \/ \E p \in Procs : PutOrderItemUpdate(p)
    \/ \E p \in Procs : UpdateFlower(p)

ItemSpec == ItemInit /\ [][ItemNext]_vars

\* the two reconciliation channels on an order with a payment link, where
\* the second write of a PAID reconciliation can fail
RetryInit ==
    /\ PayInit
    /\ \E o \in OrderIds : orders[o].paymentCode # NoCode

RetryNext ==
    \/ \E p \in Procs : StartReturn(p)
    \/ \E p \in Procs : ReturnFindTxn(p)
    \/ \E p \in Procs : ReturnSetStatus(p)
    \/ \E p \in Procs : ReturnUpdatePayment(p)
    \/ \E p \in Procs : ReturnUpdatePaymentFails(p)
    \/ \E p \in Procs : StartWebhook(p)
    \/ \E p \in Procs : WebhookFindTxn(p)
    \/ \E p \in Procs : WebhookUpdatePayment(p)
    \/ \E p \in Procs : WebhookSetStatus(p)
    \/ \E p \in Procs : WebhookSetStatusFails(p)

RetrySpec == RetryInit /\ [][RetryNext]_vars

\* requests to GET /payment/cancel
CancelRouteNext ==
    \/ \E p \in Procs : StartCancelRoute(p)
    \/ \E p \in Procs : CancelRouteFindOrder(p)
    \/ \E p \in Procs : CancelRouteCancelTxn(p)
    \/ \E p \in Procs : CancelRouteCancelOrder(p)
    \/ \E p \in Procs : CancelRouteReturn(p)
    \/ \E p \in Procs : CancelRouteFindTxn(p)
    \/ \E p \in Procs : CancelRouteSetStatus(p)
    \/ \E p \in Procs : CancelRouteUpdatePayment(p)

CancelRouteSpec == PayInit /\ [][CancelRouteNext]_vars

\* the classification of inbound events
ClassifyNext ==
    \/ \E p \in Procs : Classify(p)

ClassifySpec == PayInit /\ [][ClassifyNext]_vars

\* the sweep over two orders that both have a payment link, where a write of
\* the sweep can fail
TwoOrders ==
    AfterCreatePaymentLink(
        AfterCreatePaymentLink(
            [txns |-> <<>>] @@
              AfterCreateOrder(AfterCreateOrder(EmptyDb, <<Line("rose", 1)>>, 5),
                               <<Line("tulip", 1)>>, 5),
            1, "c1"),
        2, "c2")

SweepInit ==
    /\ impl \in Impls
    /\ price = [f \in Flowers |-> SeedPrice(f)]
    /\ stock = TwoOrders.stock
    /\ orders = TwoOrders.orders
    /\ items = TwoOrders.items
    /\ txns = TwoOrders.txns
    /\ now = 0
    /\ procs = [p \in 1..MaxProcs |-> Idle]

SweepNext ==
    \/ \E p \in Procs : StartReaper(p)
    \/ \E p \in Procs : ReaperCancelOrder(p)
    \/ \E p \in Procs : ReaperCancelTxn(p)
    \/ \E p \in Procs : ReaperWriteFails(p)
    \/ Tick

SweepSpec == SweepInit /\ [][SweepNext]_vars

\* reconciliation on both channels, the sweep and cancelPaymentLink racing on
\* an order with a payment link
RaceNext ==
    \/ \E p \in Procs : StartReturn(p)
    \/ \E p \in Procs : ReturnFindTxn(p)
    \/ \E p \in Procs : ReturnSetStatus(p)
    \/ \E p \in Procs : ReturnUpdatePayment(p)
    \/ \E p \in Procs : StartWebhook(p)
    \/ \E p \in Procs : WebhookFindTxn(p)
    \/ \E p \in Procs : WebhookUpdatePayment(p)
    \/ \E p \in Procs : WebhookSetStatus(p)
    \/ \E p \in Procs : StartCancelPaymentLink(p)
    \/ \E p \in Procs : CancelFindOrder(p)
    \/ \E p \in Procs : CancelTxn(p)
    \/ \E p \in Procs : CancelOrder(p)
    \/ \E p \in Procs : StartReaper(p)
    \/ \E p \in Procs : ReaperCancelOrder(p)
    \/ \E p \in Procs : ReaperCancelTxn(p)
    \/ Tick

RaceSpec == RetryInit /\ [][RaceNext]_vars

\* the recurring sweep in slot 1 and the reconciliation requests in the other
\* slots; the clock advances, the scheduler fires and each tick runs to its
\* end, and a write that is attempted tick after tick does not fail every time
Requests == Procs \ {1}

LiveNext ==
    \/ StartReaper(1)
    \/ ReaperCancelOrder(1)
    \/ ReaperCancelTxn(1)
    \/ ReaperWriteFails(1)
    \/ CronFires
    \/ Tick
    \/ \E p \in Requests : StartReturn(p)
    \/ \E p \in Requests : ReturnFindTxn(p)
    \/ \E p \in Requests : ReturnSetStatus(p)
    \/ \E p \in Requests : ReturnUpdatePayment(p)
    \/ \E p \in Requests : StartWebhook(p)
    \/ \E p \in Requests : WebhookFindTxn(p)
    \/ \E p \in Requests : WebhookUpdatePayment(p)
    \/ \E p \in Requests : WebhookSetStatus(p)

LiveSpec ==
    /\ SweepInit
    /\ [][LiveNext]_vars
    /\ WF_vars(Tick)
    /\ WF_vars(CronFires)
    /\ WF_vars(StartReaper(1))
    /\ WF_vars(ReaperCancelOrder(1) \/ ReaperWriteFails(1))
    /\ WF_vars(ReaperCancelTxn(1) \/ ReaperWriteFails(1))
    /\ SF_vars(ReaperCancelOrder(1))

\* OrderService.updateOrderStatus called on its own, on the datastores of the
\* payment flows
StatusInit == PayInit /\ impl = "v2"

StatusNext ==
    \/ \E p \in Procs : CallUpdateOrderStatus(p)
    \/ \E p \in Procs : MarkPaid(p)

StatusSpec == StatusInit /\ [][StatusNext]_vars

\* the line-item operations on an order that PATCH /:id/paid may have marked
\* paid
EditNext ==
    \/ \E p \in Procs : MarkPaid(p)
    \/ \E p \in Procs : StartCreateOrderItem(p)
    \/ \E p \in Procs : CoiFindOrder(p)
    \/ \E p \in Procs : CoiSave(p)
    \/ \E p \in Procs : CoiInc(p)
    \/ \E p \in Procs : StartDeleteOrderItem(p)
    \/ \E p \in Procs : DoiFindOrder(p)
    \/ \E p \in Procs : DoiInc(p)
    \/ \E p \in Procs : DoiDelete(p)
    \/ \E p \in Procs : StartUpdateOrderItem(p)
    \/ \E p \in Procs : UoiIncStock(p)
    \/ \E p \in Procs : UoiSetQuantity(p)
    \/ \E p \in Procs : UoiIncTotal(p)
    \/ \E p \in Procs : UoiCommit(p)
    \/ \E p \in Procs : StartPutOrderItem(p)
    \/ \E p \in Procs : PutOrderItemUpdate(p)

EditSpec == StatusInit /\ [][EditNext]_vars

----------------------------------------------------------------------------
(* Stock ledger and order creation *)

\* the sum of g[x] over x in S
RECURSIVE SumOver(_, _)
SumOver(S, g) ==
    IF S = {} THEN 0
    ELSE LET x == CHOOSE y \in S : TRUE IN g[x] + SumOver(S \ {x}, g)

\* an item saved by a createOrderItem call that has not yet decremented
AwaitingDecrement(i) ==
    \E p \in Procs : /\ procs[p].op = "createOrderItem"
                      /\ procs[p].pc = "inc"
                      /\ procs[p].itemId = i

\* units of flower f held by the order items whose reservation has been made
ReservedQty(f) ==
    LET held == {i \in ItemIds : items[i].flowerId = f /\ ~AwaitingDecrement(i)}
    IN  SumOver(held, [i \in held |-> items[i].quantity])

\* C1: for a flower whose stock is N, the total quantity successfully
\* reserved never exceeds N under any interleaving of reservation attempts
\* (createOrder line items and createOrderItem)
C1_ReservedWithinStock ==
    (\A p \in Procs : procs[p].op \in {"idle", "createOrder", "createOrderItem"})
        => \A f \in Flowers : ReservedQty(f) <= InitStock

\* C2: in every reachable state every flower's stock is an integer >= 0
C2_StockNonNegative == \A f \in Flowers : stock[f] \in Nat

\* the step is taken by the createOrder call in slot p
CreateOrderActs(p) ==
    /\ procs'[p].op = "createOrder"
    /\ \/ procs[p].pc # procs'[p].pc
       \/ procs[p].pc = "loop" /\ procs[p].i # procs'[p].i

RequestedQty(lines, f) ==
    LET idx == {k \in DOMAIN lines : lines[k].flowerId = f}
    IN  SumOver(idx, [k \in idx |-> lines[k].quantity])

\* C3: createOrder is all-or-nothing: a step of a createOrder call changes no
\* flower's stock, no Order and no OrderItem unless it is the commit of a call
\* whose every line item was reserved, and the commit applies all the
\* decrements together with the order and its items; a call that fails
\* (flower missing, stock < quantity, write conflict, persistence error)
\* therefore leaves every stock as it was and no Order or OrderItem of its own
C3_CreateOrderAllOrNothing ==
    [][\A p \in Procs :
         CreateOrderActs(p) =>
            IF procs'[p].pc = "done" /\ procs'[p].result = "ok"
            THEN /\ \A f \in Flowers :
                      stock'[f] = stock[f] - RequestedQty(procs[p].items, f)
                 /\ Len(orders') = Len(orders) + 1
                 /\ Len(items') = Len(items) + Len(procs[p].items)
                 /\ \A k \in DOMAIN procs[p].items :
                      /\ items'[Len(items) + k].orderId = Len(orders')
                      /\ items'[Len(items) + k].flowerId = procs[p].items[k].flowerId
                      /\ items'[Len(items) + k].quantity = procs[p].items[k].quantity
            ELSE UNCHANGED <<stock, orders, items>>]_vars

\* a createOrder call has failed on its second line item, after the first
\* line item's decrement was made in the session
C3_Witness ==
    \E p \in Procs :
        /\ procs[p].op = "createOrder" /\ procs[p].pc = "done"
        /\ procs[p].result \in {"InsufficientStock", "FlowerNotFound"}
        /\ procs[p].line = 2

\* C15: after a successful createOrder, each ordered flower's stock equals the
\* stock the call found minus the ordered quantity, and the new order's status
\* is pending
C15_CreateOrderDecrementsStock ==
    [][\A p \in Procs :
         (CreateOrderActs(p) /\ procs'[p].pc = "done" /\ procs'[p].result = "ok")
            => /\ \A k \in DOMAIN procs[p].items :
                    LET f == procs[p].items[k].flowerId
                    IN  stock'[f] = procs[p].snap[f]
                                       - RequestedQty(procs[p].items, f)
               /\ orders'[procs'[p].orderId].status = "pending"]_vars

\* a createOrder call for one rose and two tulips has succeeded: the tulips'
\* stock went down by two
C15_Witness ==
    \E p \in Procs :
        /\ procs[p].op = "createOrder" /\ procs[p].pc = "done"
        /\ procs[p].result = "ok"
        /\ orders[procs[p].orderId].status = "pending"
        /\ stock["tulip"] = InitStock - 2
        /\ \E i \in ItemIds :
             /\ items[i].orderId = procs[p].orderId
             /\ items[i].flowerId = "tulip" /\ items[i].quantity = 2

\* the sum of the line totals of the order's current items
LineTotals(o) ==
    LET its == {i \in ItemIds : items[i].orderId = o}
    IN  SumOver(its, [i \in its |-> items[i].actualPrice * items[i].quantity])

\* no call is in flight
Quiescent == \A p \in Procs : procs[p].pc \in {"idle", "done"}

\* C16: for every order, totalAmount equals the sum over its current line
\* items of (snapshot price x quantity) plus shippingFee, whenever no
\* createOrder, createOrderItem, updateOrderItem or deleteOrderItem call is
\* in flight
C16_TotalMatchesItems ==
    Quiescent =>
        \A o \in OrderIds :
            orders[o].totalAmount = LineTotals(o) + orders[o].shippingFee

----------------------------------------------------------------------------
(* Reconciliation and the timeout sweep *)

\* the invocation in slot p takes the step
Acts(p, op) ==
    /\ procs[p].op = op /\ procs[p].pc # "done"
    /\ procs'[p] # procs[p]

\* no other invocation is in flight
Alone(p) == \A q \in Procs \ {p} : procs[q].pc \in {"idle", "done"}

StillCompleted(tid) == txns[tid].transactionStatus = "completed"

\* a handlePaymentReturn call with the PAID outcome has already returned
PaidReturnDone(p) ==
    \E q \in Procs \ {p} :
        /\ procs[q].op = "return" /\ procs[q].pc = "done"
        /\ procs[q].branch = "PAID" /\ procs[q].result = "ok"

\* C4: calling handlePaymentReturn a second time with the same PAID outcome
\* (code '00', status 'PAID') for the same order code, after the first call
\* has completed the Transaction, writes neither the Transaction nor the
\* Order (paidAt is not rewritten) and returns the 'already completed' result
C4_RepeatedPaidReturnNoWrite ==
    [][\A p \in Procs :
         (/\ Acts(p, "return") /\ procs[p].branch = "PAID"
          /\ PaidReturnDone(p)
          /\ procs[p].repeat /\ StillCompleted(procs[p].transactionId)
          /\ Alone(p))
            => /\ UNCHANGED <<orders, txns>>
               /\ procs'[p].pc = "done"
               /\ procs'[p].message = "Payment already completed"]_vars

\* C5: once a Transaction's status is completed, no later step changes it to
\* failed, cancelled or pending
C5_CompletedIsSticky ==
    [][\A t \in DOMAIN txns :
         txns[t].transactionStatus = "completed"
            => txns'[t].transactionStatus = "completed"]_vars

\* C6: when a cancel redirect (cancel='true' or status 'CANCELLED') is
\* processed for an order whose Transaction is already completed, the
\* Transaction remains completed
C6_CancelReturnKeepsCompleted ==
    [][\A p \in Procs :
         (/\ Acts(p, "return") /\ procs[p].branch = "CANCELLED"
          /\ TxnFound(procs[p].transactionId)
          /\ StillCompleted(procs[p].transactionId))
            => txns'[procs[p].transactionId].transactionStatus = "completed"]_vars

\* C7: the Timeout Reaper never changes an order whose status is paid,
\* confirmed, shipped, delivered or cancelled at the moment of its write
C7_ReaperWritesOnlyPending ==
    [][\A p \in Procs :
         (Acts(p, "reaper") /\ procs[p].pc = "cancelOrder")
            => \/ orders[Head(procs[p].expiredOrders).id].status = "pending"
               \/ UNCHANGED orders]_vars

\* createPaymentLink has succeeded for order o
LinkIssued(o) ==
    \E q \in Procs : procs[q] = CplDone(o, "ok")

\* C8: once createPaymentLink has succeeded for an order, every later
\* createPaymentLink call for that order fails (with the duplicate-payment-link
\* error while the order is still pending) and leaves the order's paymentCode
\* and transactionId unchanged
C8_PaymentCodeIssuedOnce ==
    [][\A p \in Procs :
         (/\ procs[p] = Idle /\ procs'[p].op = "createPaymentLink"
          /\ LinkIssued(procs'[p].orderId))
            => /\ procs'[p].pc = "done"
               /\ procs'[p].result =
                     IF orders[procs'[p].orderId].status = "pending"
                     THEN "DuplicatePaymentLink" ELSE "OrderNotPending"]_vars

\* a PAID callback on either channel has already been processed
PaidReconciled(p) ==
    \/ PaidReturnDone(p)
    \/ \E q \in Procs \ {p} :
          /\ procs[q].op = "webhook" /\ procs[q].pc = "done"
          /\ procs[q].event = "PAID" /\ procs[q].result = "ok"

\* C9: once a Transaction is completed (by the redirect or by the webhook),
\* processing a further PAID webhook for the same order code changes neither
\* the Transaction nor the Order (status, paidAt, transactionId)
C9_RepeatedPaidWebhookNoWrite ==
    [][\A p \in Procs :
         (/\ Acts(p, "webhook") /\ procs[p].status = "PAID"
          /\ PaidReconciled(p)
          /\ procs[p].repeat /\ StillCompleted(procs[p].transactionId)
          /\ Alone(p))
            => UNCHANGED <<orders, txns>>]_vars

\* the outcome a finished callback delivered, as the transaction status it
\* stands for
ReturnOutcome(r) ==
    IF r.branch = "PAID" THEN "completed"
    ELSE IF r.branch = "CANCELLED" THEN "cancelled"
    ELSE "failed"

\* the redirect in slot p and the webhook in slot q have both been processed,
\* with the same outcome, and no other handler has run
BothDelivered(p, q) ==
    /\ p # q
    /\ procs[p].op = "return" /\ procs[p].pc = "done" /\ procs[p].result = "ok"
    /\ procs[q].op = "webhook" /\ procs[q].pc = "done" /\ procs[q].result = "ok"
    /\ ReturnOutcome(procs[p]) = WebhookStatus(procs[q].event)
    /\ \A x \in Procs \ {p, q} : procs[x] = Idle

\* C10: for an order with a pending Transaction and the same outcome delivered
\* once on the redirect channel and once on the webhook channel, the final
\* Transaction status and Order status do not depend on which of the two was
\* processed first: the Transaction ends in the outcome's status, and the
\* Order is paid exactly for the PAID outcome
C10_ReconcileCommutes ==
    \A p, q \in Procs :
        BothDelivered(p, q) =>
            /\ txns[1].transactionStatus = ReturnOutcome(procs[p])
            /\ orders[1].status =
                  IF procs[p].branch = "PAID" THEN "paid" ELSE "pending"

\* the webhook was processed first and the redirect second, both PAID
C10_Witness ==
    /\ BothDelivered(2, 1)
    /\ procs[2].branch = "PAID"
    /\ procs[2].message = "Payment already completed"
----------------------------------------------------------------------------
(* Order state machine *)

\* the invocation in slot p is the reconciliation of a PAID outcome and takes
\* the step
PaidReconciliationActs(p) ==
    \/ Acts(p, "return") /\ procs[p].branch = "PAID"
    \/ Acts(p, "webhook") /\ procs[p].status = "PAID"

\* C11: an order's status becomes paid only in a step of the reconciliation
\* of a PAID outcome (redirect or verified webhook); no other operation
\* reachable from the HTTP boundary moves an order to paid
C11_PaidOnlyByReconciliation ==
    [][\A o \in OrderIds :
         (orders[o].status # "paid" /\ orders'[o].status = "paid")
            => \E p \in Procs : PaidReconciliationActs(p)]_vars

\* C12: delivered and cancelled are terminal: once an order's status is
\* delivered or cancelled, no later operation changes it to a different value
C12_TerminalOrderStates ==
    [][\A o \in OrderIds :
         orders[o].status \in {"delivered", "cancelled"}
            => orders'[o].status = orders[o].status]_vars
----------------------------------------------------------------------------
(* Payment link creation *)

\* the createPaymentLink call in slot p returns with this step, with result
Returns(p, op, result) ==
    /\ Acts(p, op)
    /\ procs'[p].pc = "done" /\ procs'[p].result = result

\* C13: when the gateway call inside createPaymentLink fails, then on return
\* of the call the Transaction it created is failed, the order's paymentCode
\* is cleared (so that a later call can allocate a fresh code), the order is
\* still pending, and no step of the call changes a flower's stock
C13_GatewayFailureRollsBack ==
    [][\A p \in Procs :
         /\ Acts(p, "createPaymentLink") => UNCHANGED stock
         /\ (Returns(p, "createPaymentLink", "GatewayError") /\ Alone(p))
              => /\ txns'[procs[p].transactionId].transactionStatus = "failed"
                 /\ orders'[procs[p].orderId].paymentCode = NoCode
                 /\ orders'[procs[p].orderId].status = "pending"]_vars
----------------------------------------------------------------------------
(* Webhook *)

\* C14: a webhook whose signature verification fails is rejected with the
\* invalid-signature error in the handler's first step (before the order
\* lookup is awaited), it changes no Order, Transaction, OrderItem or Flower,
\* and no webhook that failed verification is ever processed further
C14_InvalidSignatureRejected ==
    [][\A p \in Procs :
         /\ (procs'[p] # procs[p] /\ procs'[p].op = "webhook"
             /\ procs'[p].pc = "done" /\ procs'[p].result = "InvalidSignature")
              => procs[p] = Idle /\ UNCHANGED dbVars
         /\ (procs'[p].op = "webhook" /\ procs'[p].pc # "done")
              => procs'[p].verified]_vars

\* an unverified PAID webhook was rejected while an order with a pending
\* transaction carried a payment code it could have named
C14_Witness ==
    /\ \E p \in Procs : procs[p] = WebhookDone("PAID", "InvalidSignature", "")
    /\ \E o \in OrderIds :
         /\ orders[o].paymentCode # NoCode /\ orders[o].status = "pending"
         /\ TxnFound(orders[o].transactionId)
         /\ txns[orders[o].transactionId].transactionStatus = "pending"

\* no other invocation has started
OnlyCall(p) == \A q \in Procs \ {p} : procs[q] = Idle

\* C17: when a verified webhook with status PAID is processed for an order
\* whose Transaction is pending (and nothing else runs meanwhile), then when
\* the handler returns the Transaction is completed and the Order is paid with
\* paidAt set and transactionId referencing that Transaction
C17_PaidWebhookReconciles ==
    [][\A p \in Procs :
         (/\ Returns(p, "webhook", "ok") /\ procs[p].status = "PAID"
          /\ procs[p].verified /\ procs[p].read = "pending"
          /\ OnlyCall(p))
            => LET o == procs[p].orderId
                   tid == procs[p].transactionId
               IN  /\ txns'[tid].transactionStatus = "completed"
                   /\ orders'[o].status = "paid"
                   /\ orders'[o].paidAt # NoDate
                   /\ orders'[o].transactionId = tid]_vars

\* a PAID webhook that found the transaction pending has returned, and it was
\* the only call
C17_Witness ==
    \E p \in Procs :
        /\ procs[p] = WebhookDone("PAID", "ok", "pending")
        /\ OnlyCall(p)
        /\ \E o \in OrderIds : orders[o].status = "paid" /\ orders[o].paidAt # NoDate

----------------------------------------------------------------------------
(* Timeout sweep *)

\* the order is pending with a payment code and older than the timeout
TimedOut(o) ==
    /\ orders[o].status = "pending" /\ orders[o].paymentCode # NoCode
    /\ now > orders[o].orderAt + PAYMENT_TIMEOUT_MINUTES

----------------------------------------------------------------------------
(* Preconditions of createPaymentLink *)

\* C19: createPaymentLink fails, with no Transaction created and no Order
\* field changed, whenever the order it reads does not exist, is not pending
\* or already has a paymentCode
C19_CreatePaymentLinkPreconditions ==
    [][\A p \in Procs :
         (procs[p] = Idle /\ procs'[p].op = "createPaymentLink")
            => LET o == procs'[p].orderId
               IN  (\/ o \notin OrderIds
                    \/ orders[o].status # "pending"
                    \/ orders[o].paymentCode # NoCode)
                      => /\ procs'[p].pc = "done"
                         /\ procs'[p].result \in
                              {"OrderNotFound", "OrderNotPending",
                               "DuplicatePaymentLink"}
                         /\ UNCHANGED <<orders, txns>>]_vars

\* only createPaymentLink calls have been made
OnlyPaymentLinkCalls ==
    \A p \in Procs : procs[p].op \in {"idle", "createPaymentLink"}

PendingTxns == {t \in TxnIds : txns[t].transactionStatus = "pending"}

ReferencedBy(t) == {o \in OrderIds : orders[o].transactionId = t}

\* C20: under every sequence and interleaving of createPaymentLink calls for
\* one order, at most one pending Transaction exists at any time, and (once
\* the calls have returned) every Transaction is referenced by exactly one
\* Order through transactionId
C20_OneActivePaymentAttempt ==
    OnlyPaymentLinkCalls =>
        /\ Cardinality(PendingTxns) <= 1
        /\ Quiescent => \A t \in TxnIds : Cardinality(ReferencedBy(t)) = 1

----------------------------------------------------------------------------
(* Frame conditions of the payment flows *)

\* the step starts or continues a call of op in slot p
Runs(p, op) == procs'[p] # procs[p] /\ procs'[p].op = op

\* C21: no step of a reconciliation (redirect or webhook, whatever the
\* outcome), of cancelPaymentLink or of a reaper tick changes any flower's
\* stock
C21_PaymentFlowsKeepStock ==
    [][\A p \in Procs :
         (\E op \in {"return", "webhook", "cancelPaymentLink", "reaper"} :
             Runs(p, op))
            => UNCHANGED stock]_vars

\* the sweep has cancelled the order and the rose it reserved is still out of
\* stock
C21_Witness ==
    /\ \E p \in Procs : procs[p] = Done("reaper", "ok")
    /\ \E o \in OrderIds : orders[o].status = "cancelled"
    /\ stock["rose"] = InitStock - 1

----------------------------------------------------------------------------
(* OrderService.updateOrderStatus *)

----------------------------------------------------------------------------
(* cancelPaymentLink *)

\* the order a call of cancelPaymentLink in slot p is about
CancelledOrders(p) ==
    IF procs[p].pc = "findOrder"
    THEN OrderByCode(procs[p].paymentCode)
    ELSE {procs[p].orderId}

\* C23: when the gateway accepts the cancellation, a call of cancelPaymentLink
\* that runs alone returns with the order holding that paymentCode cancelled
\* and its linked Transaction cancelled
C23_CancelPaymentLinkCancelsBoth ==
    [][\A p \in Procs :
         (/\ OnlyCall(p)
          /\ procs[p].op = "cancelPaymentLink" /\ procs[p].pc # "done"
          /\ procs'[p] = Done("cancelPaymentLink", "ok"))
            => \A o \in CancelledOrders(p) :
                 /\ orders'[o].status = "cancelled"
                 /\ orders'[o].transactionId \in TxnIds
                      => txns'[orders'[o].transactionId].transactionStatus = "cancelled"]_vars

----------------------------------------------------------------------------
(* the responses of the reconciliation routes *)

----------------------------------------------------------------------------
(* payment codes *)

\* C25: no two orders hold the same paymentCode, and a paymentCode that has
\* been assigned to an order is not assigned again: the code that
\* createPaymentLink writes to an order is held by no order, that order
\* included, at the moment of the write
C25_PaymentCodesNeverReused ==
    [][/\ \A o1, o2 \in DOMAIN orders' :
            (o1 # o2 /\ orders'[o1].paymentCode # NoCode)
               => orders'[o1].paymentCode # orders'[o2].paymentCode
       /\ \A p \in Procs :
            (/\ procs[p].op = "createPaymentLink" /\ procs[p].pc = "setLink"
             /\ procs'[p].pc = "gateway")
               => \A o \in OrderIds :
                    orders[o].paymentCode # procs[p].orderCode]_vars

----------------------------------------------------------------------------
(* order items *)

\* C26: an order item's actualPrice is fixed at creation: no later operation
\* (updateOrderItem, a change of the flower's price) changes the actualPrice
\* of an existing order item
C26_ActualPriceFixed ==
    [][\A i \in ItemIds : items'[i].actualPrice = items[i].actualPrice]_vars

----------------------------------------------------------------------------
(* re-entry after a partial failure *)

\* r is the record of a PAID delivery, on the redirect or the webhook channel
PaidDelivery(r) ==
    \/ r.op = "return" /\ r.branch = "PAID"
    \/ r.op = "webhook" /\ r.status = "PAID"

\* a PAID reconciliation has stopped between its two writes
PaidStoppedHalfway(p) ==
    \E q \in Procs \ {p} :
        /\ q < p
        /\ procs[q].pc = "done" /\ procs[q].result = "DatastoreError"
        /\ \/ procs[q].op = "return" /\ procs[q].branch = "PAID"
           \/ procs[q].op = "webhook" /\ procs[q].event = "PAID"

\* C27: if a PAID reconciliation stops after writing the Transaction
\* completed but before writing the Order paid (or, on the webhook path,
\* after the Order write but before the Transaction write), a retried PAID
\* delivery for the same order code ends with the Transaction completed and
\* the Order paid
C27_PaidRetryCompletes ==
    [][\A p \in Procs :
         (/\ PaidStoppedHalfway(p)
          /\ \A q \in Procs \ {p} : procs[q].pc \in {"done", "idle"}
          /\ procs[p].pc \notin {"done", "idle"} /\ PaidDelivery(procs[p])
          /\ procs'[p].pc = "done" /\ procs'[p].result = "ok")
            => \A o \in OrderIds :
                 /\ orders'[o].status = "paid"
                 /\ txns'[orders'[o].transactionId].transactionStatus
                       = "completed"]_vars

----------------------------------------------------------------------------
(* overlapping ticks of the reaper *)

\* another tick has selected order o and has already written it
OtherTickWrote(p, o) ==
    \E q \in Procs \ {p} :
        /\ procs[q].op = "reaper" /\ procs[q].pc = "cancelTxn"
        /\ Head(procs[q].expiredOrders).id = o

\* C28: when two ticks have both selected the same expired pending order, the
\* tick that runs second finds the order no longer pending and changes
\* nothing: its step leaves the datastore as it is and it does not go on to
\* write the order's transaction
C28_SecondTickChangesNothing ==
    [][\A p \in Procs :
         (/\ Runs(p, "reaper") /\ procs[p].op = "reaper"
          /\ procs[p].pc = "cancelOrder"
          /\ OtherTickWrote(p, Head(procs[p].expiredOrders).id)
          /\ orders[Head(procs[p].expiredOrders).id].status # "pending")
            => /\ UNCHANGED <<orders, txns>>
               /\ procs'[p].pc # "cancelTxn"]_vars

----------------------------------------------------------------------------
(* the FAILED outcome *)

\* r is the record of a delivery whose outcome is neither PAID nor CANCELLED
FailedDelivery(r) ==
    \/ r.op = "return" /\ r.branch = "FAILED"
    \/ r.op = "webhook" /\ r.status \notin {"PAID", "CANCELLED"}

\* C29: on a FAILED outcome, on the redirect and on the webhook path, the
\* Transaction becomes failed only if it is still pending, a Transaction in
\* any other status is left unchanged, and the Order and the stock are left
\* as they are
C29_FailedOnlyFromPending ==
    [][\A p \in Procs :
         (/\ procs[p].pc \notin {"idle", "done"} /\ FailedDelivery(procs[p])
          /\ procs'[p] # procs[p])
            => /\ UNCHANGED <<orders, stock>>
               /\ \A t \in TxnIds :
                    txns'[t] # txns[t]
                       => /\ txns[t].transactionStatus = "pending"
                          /\ txns'[t].transactionStatus = "failed"]_vars

----------------------------------------------------------------------------
(* the cancel redirect *)

\* C30: processing a cancel redirect, from the arrival of the request at the
\* payment/cancel endpoint to the redirect response, leaves every Order's
\* status unchanged; only the Transaction's status may change
C30_CancelRedirectKeepsOrder ==
    [][\A p \in Procs :
         (/\ procs[p].op = "cancelRoute" /\ procs[p].pc # "done"
          /\ procs[p].branch = "CANCELLED"
          /\ procs'[p] # procs[p])
            => /\ \A o \in OrderIds : orders'[o].status = orders[o].status
               /\ UNCHANGED <<stock, items>>]_vars

----------------------------------------------------------------------------
(* reconciliation without a transaction or without an order *)

\* C31: for every outcome and on both channels, reconciliation of an order
\* that has no linked Transaction fails with a transaction-not-found error
\* and changes no state
C31_NoTransactionIsAnError ==
    [][\A p \in Procs :
         (/\ procs[p].op \in {"return", "webhook"} /\ procs[p].pc = "findTxn"
          /\ ~TxnFound(procs[p].transactionId)
          /\ procs'[p] # procs[p])
            => /\ procs'[p].pc = "done"
               /\ procs'[p].result = "TransactionNotFound"
               /\ UNCHANGED dbVars]_vars

\* no order holds a payment code: every order code matches no order
NoCodeHeld == \A c \in Codes : OrderByCode(c) = {}

----------------------------------------------------------------------------
(* classification of the outcome *)

\* the classification the specification gives
Outcome(code, status, cancel) ==
    IF code = "00" /\ status = "PAID" THEN "PAID"
    ELSE IF cancel = "true" \/ status = "CANCELLED" THEN "CANCELLED"
    ELSE "FAILED"

\* C33: an inbound event is PAID iff the result code is '00' and the status
\* is 'PAID', otherwise CANCELLED iff the cancel flag is 'true' or the status
\* is 'CANCELLED', otherwise FAILED, and the redirect path and the webhook
\* path classify the same fields the same way
C33_OutcomeClassification ==
    \A p \in Procs :
        procs[p].op = "classify"
           => /\ procs[p].redirect =
                    Outcome(procs[p].code, procs[p].status, procs[p].cancel)
              /\ procs[p].webhook = procs[p].redirect

----------------------------------------------------------------------------
(* failures within a sweep *)

\* where the sweep in slot p stands once it has left its first order
AfterFirst(p) ==
    IF Len(procs[p].expiredOrders) = 1
    THEN Done("reaper", "ok")
    ELSE [procs[p] EXCEPT !.pc = "cancelOrder", !.expiredOrders = Tail(@)]

\* C34: within one tick, a failure while cancelling one expired order does
\* not stop the sweep: a step of the tick either performs the write it is at
\* (the order it is at becomes cancelled, its transaction becomes cancelled)
\* or, on a failure, changes nothing and goes on with the next order it
\* selected, and the tick ends only when no selected order is left
C34_SweepSurvivesFailure ==
    [][\A p \in Procs :
         (procs[p].op = "reaper" /\ procs[p].pc # "done" /\ procs'[p] # procs[p])
            => LET order == Head(procs[p].expiredOrders)
               IN  \/ /\ procs[p].pc = "cancelOrder"
                      /\ orders'[order.id].status = "cancelled"
                      /\ procs'[p] = IF order.transactionId # NoTxn
                                     THEN [procs[p] EXCEPT !.pc = "cancelTxn"]
                                     ELSE AfterFirst(p)
                   \/ /\ procs[p].pc = "cancelTxn"
                      /\ txns'[order.transactionId].transactionStatus = "cancelled"
                      /\ procs'[p] = AfterFirst(p)
                   \/ /\ UNCHANGED dbVars
                      /\ procs'[p] = AfterFirst(p)]_vars

\* a tick that failed on the first order has ended, and the second order it
\* selected is cancelled with its transaction
C34_Witness ==
    /\ \E p \in Procs :
          /\ procs[p] = Done("reaper", "ok")
          /\ \A q \in Procs \ {p} : procs[q] = Idle
    /\ Len(orders) = 2
    /\ orders[1].status = "pending"
    /\ orders[2].status = "cancelled"
    /\ txns[orders[2].transactionId].transactionStatus = "cancelled"

----------------------------------------------------------------------------
(* races between reconciliation, the sweep and cancelPaymentLink *)

\* C35: in no reachable state with no operation in flight is an order's
\* Transaction completed while the order's status is cancelled or pending,
\* under any interleaving of PAID reconciliation (redirect or webhook),
\* reaper ticks and cancelPaymentLink
C35_CompletedMeansPaid ==
    Quiescent =>
        \A o \in OrderIds :
            (/\ TxnFound(orders[o].transactionId)
             /\ txns[orders[o].transactionId].transactionStatus = "completed")
               => orders[o].status \notin {"cancelled", "pending"}

----------------------------------------------------------------------------
(* stock conservation *)

\* units of flower f held by the existing order items
HeldQty(f) ==
    LET held == {i \in ItemIds : items[i].flowerId = f}
    IN  SumOver(held, [i \in held |-> items[i].quantity])

\* C36: for every flower, stock plus the sum of the quantities of all existing
\* order items for that flower is constant over every interleaving of
\* createOrder, createOrderItem, updateOrderItem and deleteOrderItem, at every
\* state with no call in flight; in particular two concurrent deleteOrderItem
\* calls for one item release its quantity only once
C36_StockConservation ==
    Quiescent => \A f \in Flowers : stock[f] + HeldQty(f) = InitStock

----------------------------------------------------------------------------
(* concurrent duplicate deliveries *)

\* C37: for any interleaving of two PAID reconciliations (redirect and/or
\* webhook) of the same order, the Order's paidAt is written exactly once: a
\* reconciliation performs the Order write only on an order whose paidAt has
\* not been written
C37_PaidAtWrittenOnce ==
    [][\A p \in Procs :
         (/\ procs[p].op \in {"return", "webhook"}
          /\ procs[p].pc = "updatePayment"
          /\ procs'[p] # procs[p])
            => orders[procs[p].orderId].paidAt = NoDate]_vars

----------------------------------------------------------------------------
(* reclaiming abandoned payments *)

\* the orders of the sweep's datastore
SweepOrders == 1..Len(TwoOrders.orders)

\* a PAID outcome has been delivered
PaidReceived ==
    \E p \in Procs :
        \/ procs[p].op = "return" /\ procs[p].branch = "PAID"
        \/ procs[p].op = "webhook" /\ procs[p].pc # "done"
              /\ procs[p].status = "PAID"
        \/ procs[p].op = "webhook" /\ procs[p].pc = "done"
              /\ procs[p].event = "PAID"

----------------------------------------------------------------------------
(* line items of an order that is no longer pending *)

ItemOps == {"createOrderItem", "deleteOrderItem", "updateOrderItem",
            "putOrderItem"}

\* every order was already out of pending when the call in slot p arrived:
\* the calls in the slots before it are finished PATCH /:id/paid calls and
\* no call has arrived after it
NothingPending(p) ==
    /\ \A o \in OrderIds : orders[o].status # "pending"
    /\ \A q \in Procs : q < p => procs[q] = Done("markPaid", "ok")
    /\ \A q \in Procs : q > p => procs[q] = Idle

\* C39: createOrderItem, updateOrderItem and deleteOrderItem on an order
\* whose status is not pending fail and leave the items, the order's
\* totalAmount and every flower's stock unchanged
C39_ItemsChangeOnlyWhilePending ==
    [][\A p \in Procs :
         (/\ NothingPending(p)
          /\ procs'[p] # procs[p]
          /\ procs'[p].op \in ItemOps)
            => /\ UNCHANGED <<items, orders, stock>>
               /\ procs'[p].pc = "done" => procs'[p].result # "ok"]_vars

----------------------------------------------------------------------------
(* the status a webhook response reports *)

\* C40: the status reported in a successful webhook response equals the
\* Transaction's stored status after that webhook has been processed
\* (completed after PAID, cancelled after CANCELLED, failed otherwise)
C40_WebhookReportsStoredStatus ==
    [][\A p \in Procs :
         Returns(p, "webhook", "ok")
            => LET stored == txns'[procs[p].transactionId].transactionStatus
               IN  /\ stored = WebhookStatus(procs[p].status)
                   /\ procs'[p].status = stored]_vars
====
